---------------------------- MODULE Spec2Model ----------------------------
(***************************************************************************)
(* A model of the adaptive retrieval-and-caching subsystem of the          *)
(* document question-answering service (hasti304/ai-pdf-rag).              *)
(*                                                                         *)
(* Conventions                                                             *)
(*  - times are integers in milliseconds (Date.now(), measured from the    *)
(*    start of the process);                                               *)
(*  - scores in [0,1] are integers in hundredths (0.75 is 75);             *)
(*  - a string that is normalised by the code is a sequence of one-letter  *)
(*    strings, so that toLowerCase and trim are computed, not assumed;     *)
(*  - a JavaScript Map is a sequence of entries in insertion order, each   *)
(*    entry carrying its key;                                              *)
(*  - md5 is a tagged copy of its argument (collisions are not modelled).  *)
(***************************************************************************)
EXTENDS Integers, Sequences, FiniteSets, TLC

VARIABLES
    now,            \* Date.now()
    queryCache,     \* IntelligentCacheManager.queryCache
    embeddingCache, \* IntelligentCacheManager.embeddingCache
    stats,          \* IntelligentCacheManager.stats
    ret,            \* the last call made on the cache manager and what it returned
    lastStored,     \* history: per normalised question, the last store not yet removed
    steps,          \* number of operations performed so far
    requests,       \* POST /chat: the requests in flight and finished
    search,         \* HybridRetriever: the search call in progress
    enhance,        \* QueryAnalyzer: the enhanceQuery call in progress
    evaluation,     \* ResponseQualityEvaluator: the evaluation in progress
    summarize,      \* summarization routes: the request in progress
    clustering,     \* DocumentClusteringService: its maps, its runs and its readers
    analyzer        \* QueryAnalyzer: its analysis cache and its analyzeQuery calls

cacheVars == <<now, queryCache, embeddingCache, stats, ret, lastStored, steps>>

vars ==
    <<now, queryCache, embeddingCache, stats, ret, lastStored, steps,
      requests, search, enhance, evaluation, summarize, clustering, analyzer>>

\* what the calls on the cache manager leave alone
notCache == <<requests, search, enhance, evaluation, summarize, clustering, analyzer>>

(***************************************************************************)
(* Bounds of the model                                                     *)
(***************************************************************************)
MaxSteps == 3

(***************************************************************************)
(* Program constants                                                       *)
(***************************************************************************)
HourMs == 3600000
defaultTTL == 43200000
maxMemoryMB == 256
baselineResponseTime == 3000
BytesPerMB == 1048576

MaxTTL == 7 * 24 * 60 * 60 * 1000
EmbeddingTTL == 7 * 24 * 60 * 60 * 1000

\* undefined / null of a string-valued field
NULL == "null"

\* an optional value: << >> is null, <<x>> is the value x
None == << >>

Some(x) == <<x>>

Min(a, b) == IF a < b THEN a ELSE b

Max(a, b) == IF a > b THEN a ELSE b

\* DocumentClusteringService after construction: empty maps, no matrix, no run yet.
\* runs and readers hold the calls in progress, returned the call that returned
\* last, calls the number of calls made; epoch counts the replacements of the maps.
NewClusteringService ==
    [clusters |-> << >>, documents |-> << >>, similarityMatrix |-> None,
     lastClusteringRun |-> None, runs |-> << >>, returned |-> None, calls |-> 0,
     readers |-> << >>, epoch |-> 0, found |-> None, recommended |-> None,
     recommendations |-> 0]

\* a QueryAnalyzer after construction: an empty analysis cache
NewQueryAnalyzer ==
    [cache |-> << >>, calls |-> << >>, returned |-> None, analyses |-> 0,
     insertions |-> 0]

(***************************************************************************)
(* Strings                                                                 *)
(***************************************************************************)
Whitespace == {" "}

LowerChar(c) ==
    CASE c = "Q" -> "q"
      [] c = "P" -> "p"
      [] OTHER -> c

\* String.prototype.toLowerCase
ToLowerCase(s) == [i \in 1..Len(s) |-> LowerChar(s[i])]

RECURSIVE TrimStart(_)
TrimStart(s) ==
    IF s # << >> /\ Head(s) \in Whitespace THEN TrimStart(Tail(s)) ELSE s

RECURSIVE TrimEnd(_)
TrimEnd(s) ==
    IF s # << >> /\ s[Len(s)] \in Whitespace
    THEN TrimEnd(SubSeq(s, 1, Len(s) - 1))
    ELSE s

\* String.prototype.trim
Trim(s) == TrimEnd(TrimStart(s))

generateHash(text) == <<"md5", text>>

\* mutant: the key is built from the lower-cased question without trimming it
QueryKeyUntrimmed(query) == <<"query:", generateHash(ToLowerCase(query))>>

\* the cache key of getCachedQueryResponse and cacheQueryResponse
QueryKey(query) == <<"query:", generateHash(Trim(ToLowerCase(query)))>>

EmbeddingKey(text) == <<"embedding:", generateHash(text)>>

(***************************************************************************)
(* JavaScript Map, in insertion order                                      *)
(***************************************************************************)
MapKeys(m) == {m[i].key : i \in 1..Len(m)}

MapHas(m, k) == k \in MapKeys(m)

MapGet(m, k) ==
    IF MapHas(m, k)
    THEN m[CHOOSE i \in 1..Len(m) : m[i].key = k]
    ELSE NULL

\* Map.prototype.set: an existing key keeps its position
MapSet(m, k, e) ==
    IF MapHas(m, k)
    THEN [i \in 1..Len(m) |-> IF m[i].key = k THEN e ELSE m[i]]
    ELSE Append(m, e)

MapDelete(m, k) == SelectSeq(m, LAMBDA e : e.key # k)

(***************************************************************************)
(* Inputs of the cache manager                                             *)
(***************************************************************************)
\* questions; the first two differ only in case and surrounding blanks
Queries == {<<"Q">>, <<" ", "q">>, <<"p">>}

\* answers: the text, as a sequence of streamed fragments, and its sources
Answers ==
    {[response |-> <<"a1">>, sources |-> <<"doc1.pdf">>],
     [response |-> <<"a1", "a2">>, sources |-> <<"doc1.pdf", "doc2.pdf">>]}

Analyses == {[category |-> "factual", complexity |-> NULL]}

\* (quality, responseTime): high and fast, medium and slow, low and slow
Performances ==
    {[quality |-> 90, responseTime |-> 1000],
     [quality |-> 70, responseTime |-> 5000],
     [quality |-> 30, responseTime |-> 5000]}

Texts == {<<"t">>}

Models == {"m1", "m2"}

Embeddings == {<<1, 0>>}

TickSteps == {6 * HourMs, 7 * 24 * HourMs, 8 * 24 * HourMs}

\* the clock stops here (three weeks), within 32 bits
MaxClock == 21 * 24 * HourMs

\* number of characters of a streamed fragment
FragmentChars(f) == IF f = "a2" THEN 130 * BytesPerMB ELSE 64

RECURSIVE StringLength(_)
StringLength(text) ==
    IF text = << >> THEN 0 ELSE FragmentChars(Head(text)) + StringLength(Tail(text))

(***************************************************************************)
(* IntelligentCacheManager: private helpers                                *)
(***************************************************************************)
\* obj.name where the value is a string: undefined when obj has no such property
Property(obj, name) == IF name \in DOMAIN obj THEN obj[name] ELSE NULL

\* x || 'unknown'
OrUnknown(x) == IF x = NULL \/ x = "" THEN "unknown" ELSE x

\* Math.round of a non-negative number of tenths given in hundredths
RoundTenths(q) == (q + 5) \div 10

\* mutant: the doubling also applies at quality = 0.8
calculateDynamicTTLInclusive(quality, responseTime) ==
    LET base == defaultTTL
        byQuality == IF quality >= 80 THEN base * 2
                     ELSE IF quality < 50 THEN base \div 2
                     ELSE base
        bySpeed == IF responseTime < baselineResponseTime
                   THEN (byQuality * 3) \div 2
                   ELSE byQuality
    IN  Min(bySpeed, MaxTTL)

calculateDynamicTTL(quality, responseTime) ==
    LET base == defaultTTL
        byQuality == IF quality > 80 THEN base * 2
                     ELSE IF quality < 50 THEN base \div 2
                     ELSE base
        bySpeed == IF responseTime < baselineResponseTime
                   THEN (byQuality * 3) \div 2
                   ELSE byQuality
    IN  Min(bySpeed, MaxTTL)

calculatePriority(quality, responseTime) ==
    IF quality > 80 /\ responseTime < 5000 THEN "high"
    ELSE IF quality > 60 /\ responseTime < 10000 THEN "medium"
    ELSE "low"

\* mutant: the age is compared with the seven-day ceiling instead of the entry's ttl
IsExpiredAfterAWeek(entry, t) == t - entry.timestamp > MaxTTL

\* the test `Date.now() - entry.timestamp > entry.ttl` of both lookups and the sweep
IsExpired(entry, t) == t - entry.timestamp > entry.ttl

documentCache == << >>

updateStats(st, type, qc, ec) ==
    [st EXCEPT !.totalHits = IF type = "hit" THEN @ + 1 ELSE @,
               !.totalMisses = IF type = "miss" THEN @ + 1 ELSE @,
               !.totalEntries = Len(qc) + Len(ec) + Len(documentCache)]

\* JSON.stringify(entry).length, reduced to its dominant term, the answer text
JsonLength(entry) == StringLength(entry.data.response)

EmbeddingBytes(entry) == Len(entry.data.embedding) * 8 + Len(entry.data.text) * 2

RECURSIVE QueryCacheBytes(_)
QueryCacheBytes(qc) ==
    IF qc = << >> THEN 0 ELSE JsonLength(Head(qc)) + QueryCacheBytes(Tail(qc))

RECURSIVE EmbeddingCacheBytes(_)
EmbeddingCacheBytes(ec) ==
    IF ec = << >> THEN 0 ELSE EmbeddingBytes(Head(ec)) + EmbeddingCacheBytes(Tail(ec))

\* updateMemoryUsage: the estimate, kept in bytes (the code divides by 1024 * 1024)
MemoryBytes(qc, ec) == QueryCacheBytes(qc) + EmbeddingCacheBytes(ec)

resetStats ==
    [totalEntries |-> 0, totalHits |-> 0, totalMisses |-> 0,
     memoryUsage |-> 0, evictionCount |-> 0]

(***************************************************************************)
(* IntelligentCacheManager: state after construction                       *)
(***************************************************************************)
NoCall ==
    [op |-> "none", arg |-> None, key |-> None, found |-> None, value |-> None, at |-> 0]

\* the question as the specification normalises it: lower-cased and trimmed
Normalised(query) == Trim(ToLowerCase(query))

NormalisedQueries == {Normalised(q) : q \in Queries}

\* history of a store: the arguments of the call and its time
Remember(h, query, response, sources, responseTime, quality, t) ==
    [h EXCEPT ![Normalised(query)] =
        Some([query |-> query, response |-> response, sources |-> sources,
              responseTime |-> responseTime, quality |-> quality, at |-> t])]

\* history of a removal (clear, invalidation, sweep): forget what is no longer held
Forget(h, qc) ==
    [n \in DOMAIN h |-> IF MapHas(qc, QueryKey(n)) THEN h[n] ELSE None]

CacheInit ==
    /\ now = 0
    /\ lastStored = [n \in NormalisedQueries |-> None]
    /\ queryCache = << >>
    /\ embeddingCache = << >>
    /\ stats = resetStats
    /\ ret = NoCall
    /\ steps = 0

(***************************************************************************)
(* IntelligentCacheManager: operations                                     *)
(***************************************************************************)
NewQueryEntry(query, analysis, searchResults, response, sources, responseTime, quality, t) ==
    [key |-> QueryKey(query),
     data |-> [query |-> query,
               queryHash |-> generateHash(Trim(ToLowerCase(query))),
               analysis |-> analysis,
               searchResults |-> searchResults,
               response |-> response,
               sources |-> sources,
               responseTime |-> responseTime,
               quality |-> quality],
     timestamp |-> t,
     ttl |-> calculateDynamicTTL(quality, responseTime),
     accessCount |-> 1,
     lastAccessed |-> t,
     tags |-> << <<"query">>,
                 <<OrUnknown(Property(analysis, "category"))>>,
                 <<OrUnknown(Property(analysis, "complexity"))>>,
                 <<"quality:", RoundTenths(quality)>> >>,
     priority |-> calculatePriority(quality, responseTime)]

\* queryCache.set and updateStats('cache') of cacheQueryResponse
StoreQueryEntry(qc, entry) == MapSet(qc, entry.key, entry)

cacheQueryResponse(query, analysis, searchResults, response, sources, responseTime, quality) ==
    LET entry == NewQueryEntry(query, analysis, searchResults, response, sources,
                                responseTime, quality, now)
        qc == StoreQueryEntry(queryCache, entry)
    IN  /\ queryCache' = qc
        /\ stats' = updateStats(stats, "cache", qc, embeddingCache)
        /\ ret' = [op |-> "cacheQueryResponse", arg |-> query, key |-> Some(entry.key),
                    found |-> None, value |-> None, at |-> now]

\* what getCachedQueryResponse does with the entry it found: "miss", "expired" or "hit"
QueryLookupOutcome(qc, key, t) ==
    IF ~MapHas(qc, key) THEN "miss"
    ELSE IF IsExpired(MapGet(qc, key), t) THEN "expired"
    ELSE "hit"

Touch(entry, t) ==
    [entry EXCEPT !.accessCount = @ + 1, !.lastAccessed = t]

getCachedQueryResponse(query) ==
    LET key == QueryKey(query)
        outcome == QueryLookupOutcome(queryCache, key, now)
        found == IF MapHas(queryCache, key) THEN Some(MapGet(queryCache, key)) ELSE None
        qc == CASE outcome = "miss" -> queryCache
                [] outcome = "expired" -> MapDelete(queryCache, key)
                [] outcome = "hit" ->
                     MapSet(queryCache, key, Touch(MapGet(queryCache, key), now))
    IN  /\ queryCache' = qc
        /\ stats' = updateStats(stats, IF outcome = "hit" THEN "hit" ELSE "miss",
                                 qc, embeddingCache)
        /\ ret' = [op |-> "getCachedQueryResponse", arg |-> query, key |-> Some(key),
                    found |-> found,
                    value |-> IF outcome = "hit"
                              THEN Some(MapGet(queryCache, key).data)
                              ELSE None,
                    at |-> now]

NewEmbeddingEntry(text, embedding, model, t) ==
    [key |-> EmbeddingKey(text),
     data |-> [text |-> SubSeq(text, 1, Min(200, Len(text))),
               textHash |-> generateHash(text),
               embedding |-> embedding,
               model |-> model,
               createdAt |-> t],
     timestamp |-> t,
     ttl |-> EmbeddingTTL,
     accessCount |-> 1,
     lastAccessed |-> t,
     tags |-> << <<"embedding">>, <<model>>, <<"length:", Len(text)>> >>,
     priority |-> "high"]

cacheEmbedding(text, embedding, model) ==
    LET entry == NewEmbeddingEntry(text, embedding, model, now)
    IN  /\ embeddingCache' = MapSet(embeddingCache, entry.key, entry)
        /\ ret' = [op |-> "cacheEmbedding", arg |-> <<text, model>>, key |-> Some(entry.key),
                    found |-> None, value |-> None, at |-> now]

\* what getCachedEmbedding does: "miss" (no entry, or an entry of another model),
\* "expired" or "hit"
EmbeddingLookupOutcome(ec, key, model, t) ==
    IF ~MapHas(ec, key) THEN "miss"
    ELSE IF MapGet(ec, key).data.model # model THEN "miss"
    ELSE IF IsExpired(MapGet(ec, key), t) THEN "expired"
    ELSE "hit"

getCachedEmbedding(text, model) ==
    LET key == EmbeddingKey(text)
        outcome == EmbeddingLookupOutcome(embeddingCache, key, model, now)
        found == IF MapHas(embeddingCache, key)
                 THEN Some(MapGet(embeddingCache, key)) ELSE None
    IN  /\ embeddingCache' =
              CASE outcome = "miss" -> embeddingCache
                [] outcome = "expired" -> MapDelete(embeddingCache, key)
                [] outcome = "hit" ->
                     MapSet(embeddingCache, key, Touch(MapGet(embeddingCache, key), now))
        /\ ret' = [op |-> "getCachedEmbedding", arg |-> <<text, model>>, key |-> Some(key),
                    found |-> found,
                    value |-> IF outcome = "hit"
                              THEN Some(MapGet(embeddingCache, key).data.embedding)
                              ELSE None,
                    at |-> now]

CacheTypes == {"query", "embedding", "document", NULL}

clearCache(type) ==
    /\ queryCache' = IF type \in {"query", NULL} THEN << >> ELSE queryCache
    /\ embeddingCache' = IF type \in {"embedding", NULL} THEN << >> ELSE embeddingCache
    /\ stats' = resetStats
    /\ ret' = [op |-> "clearCache", arg |-> type, key |-> None, found |-> None,
                value |-> None, at |-> now]

\* mutant: an entry is hit only when it carries every given tag
TagsAllIncluded(tags, entry) ==
    \A i \in 1..Len(tags) : \E j \in 1..Len(entry.tags) : tags[i] = entry.tags[j]

\* tags.some(tag => entry.tags.includes(tag))
TagsIntersect(tags, entry) ==
    \E i \in 1..Len(tags) : \E j \in 1..Len(entry.tags) : tags[i] = entry.tags[j]

\* the entries one loop of invalidateByTags leaves in a cache
KeepUntagged(m, tags) == SelectSeq(m, LAMBDA e : ~TagsIntersect(tags, e))

invalidateByTags(tags) ==
    LET qc == KeepUntagged(queryCache, tags)
        ec == KeepUntagged(embeddingCache, tags)
        invalidatedCount == (Len(queryCache) - Len(qc)) + (Len(embeddingCache) - Len(ec))
    IN  /\ queryCache' = qc
        /\ embeddingCache' = ec
        /\ ret' = [op |-> "invalidateByTags", arg |-> tags, key |-> None, found |-> None,
                    value |-> Some(invalidatedCount), at |-> now]

\* getStats: updateMemoryUsage, then a copy of the statistics
getStats ==
    LET st == [stats EXCEPT !.memoryUsage = MemoryBytes(queryCache, embeddingCache)]
    IN  /\ stats' = st
        /\ ret' = [op |-> "getStats", arg |-> None, key |-> None, found |-> None,
                    value |-> Some(st), at |-> now]

\* the entries the first two loops of performCleanup leave in a cache
\* mutant: the expiry loops delete nothing
KeepEverything(m, t) == m

KeepUnexpired(m, t) == SelectSeq(m, LAMBDA e : ~IsExpired(e, t))

LowPriority(qc) == SelectSeq(qc, LAMBDA e : e.priority = "low")

\* Array.prototype.sort by lastAccessed (stable): insertion of e into a sorted list
RECURSIVE InsertByLastAccessed(_, _)
InsertByLastAccessed(sorted, e) ==
    IF sorted = << >> THEN <<e>>
    ELSE IF Head(sorted).lastAccessed <= e.lastAccessed
         THEN <<Head(sorted)>> \o InsertByLastAccessed(Tail(sorted), e)
         ELSE <<e>> \o sorted

RECURSIVE SortByLastAccessed(_)
SortByLastAccessed(entries) ==
    IF entries = << >> THEN << >>
    ELSE InsertByLastAccessed(
             SortByLastAccessed(SubSeq(entries, 1, Len(entries) - 1)),
             entries[Len(entries)])

\* mutant: the share is rounded down
FloorFifth(n) == n \div 5

\* Math.ceil(n * 0.2)
CeilFifth(n) == (n + 4) \div 5

\* the keys performLRUEviction deletes from the query cache
LRUVictims(qc) ==
    LET allEntries == SortByLastAccessed(LowPriority(qc))
        toEvict == CeilFifth(Len(allEntries))
    IN  {allEntries[i].key : i \in 1..toEvict}

performLRUEviction(qc) == SelectSeq(qc, LAMBDA e : e.key \notin LRUVictims(qc))

\* the test `this.stats.memoryUsage > this.config.maxMemoryMB * 0.9` of performCleanup
\* (256 * 0.9 MB in bytes; the division is arranged to stay within 32 bits)
MemoryPressure(st) == st.memoryUsage > ((maxMemoryMB * 9) * (BytesPerMB \div 2)) \div 5

performCleanup ==
    LET qc1 == KeepUnexpired(queryCache, now)
        ec1 == KeepUnexpired(embeddingCache, now)
        evicted == (Len(queryCache) - Len(qc1)) + (Len(embeddingCache) - Len(ec1))
        qc2 == IF MemoryPressure(stats) THEN performLRUEviction(qc1) ELSE qc1
        toEvict == Len(qc1) - Len(qc2)
    IN  /\ queryCache' = qc2
        /\ embeddingCache' = ec1
        /\ stats' = [stats EXCEPT !.evictionCount = @ + toEvict + evicted]
        /\ ret' = [op |-> "performCleanup", arg |-> None, key |-> None, found |-> None,
                    value |-> None, at |-> now]

(***************************************************************************)
(* The cache manager under arbitrary calls, sweeps and clock advances      *)
(***************************************************************************)
CacheQueryResponse ==
    /\ steps < MaxSteps
    /\ \E query \in Queries, analysis \in Analyses, answer \in Answers,
          perf \in Performances :
            /\ cacheQueryResponse(query, analysis, << >>, answer.response, answer.sources,
                                  perf.responseTime, perf.quality)
            /\ lastStored' = Remember(lastStored, query, answer.response, answer.sources,
                                       perf.responseTime, perf.quality, now)
    /\ steps' = steps + 1
    /\ UNCHANGED notCache
    /\ UNCHANGED <<now, embeddingCache>>

GetCachedQueryResponse ==
    /\ steps < MaxSteps
    /\ \E query \in Queries : getCachedQueryResponse(query)
    /\ steps' = steps + 1
    /\ UNCHANGED notCache
    /\ UNCHANGED <<now, embeddingCache, lastStored>>

CacheEmbedding ==
    /\ steps < MaxSteps
    /\ \E text \in Texts, embedding \in Embeddings, model \in Models :
            cacheEmbedding(text, embedding, model)
    /\ steps' = steps + 1
    /\ UNCHANGED notCache
    /\ UNCHANGED <<now, queryCache, stats, lastStored>>

GetCachedEmbedding ==
    /\ steps < MaxSteps
    /\ \E text \in Texts, model \in Models : getCachedEmbedding(text, model)
    /\ steps' = steps + 1
    /\ UNCHANGED notCache
    /\ UNCHANGED <<now, queryCache, stats, lastStored>>

ClearCache ==
    /\ steps < MaxSteps
    /\ \E type \in CacheTypes : clearCache(type)
    /\ lastStored' = Forget(lastStored, queryCache')
    /\ steps' = steps + 1
    /\ UNCHANGED notCache
    /\ UNCHANGED now

TagLists ==
    {<< >>, << <<"factual">> >>, << <<"quality:", 9>>, <<"m1">> >>, << <<"query">> >>}

InvalidateByTags ==
    /\ steps < MaxSteps
    /\ \E tags \in TagLists : invalidateByTags(tags)
    /\ lastStored' = Forget(lastStored, queryCache')
    /\ steps' = steps + 1
    /\ UNCHANGED notCache
    /\ UNCHANGED <<now, stats>>

GetStats ==
    /\ steps < MaxSteps
    /\ getStats
    /\ steps' = steps + 1
    /\ UNCHANGED notCache
    /\ UNCHANGED <<now, queryCache, embeddingCache, lastStored>>

\* one firing of the cleanup timer
PerformCleanup ==
    /\ steps < MaxSteps
    /\ performCleanup
    /\ lastStored' = Forget(lastStored, queryCache')
    /\ steps' = steps + 1
    /\ UNCHANGED notCache
    /\ UNCHANGED now

\* the clock advances
Tick ==
    /\ steps < MaxSteps
    /\ \E d \in TickSteps : d <= MaxClock - now /\ now' = now + d
    /\ steps' = steps + 1
    /\ UNCHANGED notCache
    /\ UNCHANGED <<queryCache, embeddingCache, stats, ret, lastStored>>

CacheNext ==
    \/ CacheQueryResponse
    \/ GetCachedQueryResponse
    \/ CacheEmbedding
    \/ GetCachedEmbedding
    \/ ClearCache
    \/ InvalidateByTags
    \/ GetStats
    \/ PerformCleanup
    \/ Tick

(***************************************************************************)
(* cacheQueryResponse over a grid of (quality, responseTime) pairs         *)
(***************************************************************************)
QualityGrid == {0, 30, 49, 50, 80, 81, 90, 100}

TimeGrid == {1000, 2999, 3000, 5000}

GridQueries == {<<"Q">>, <<"p">>}

CacheQueryResponseOverGrid ==
    /\ \E query \in GridQueries, analysis \in Analyses, answer \in Answers,
          quality \in QualityGrid, responseTime \in TimeGrid :
            /\ answer.response = <<"a1">>
            /\ cacheQueryResponse(query, analysis, << >>, answer.response, answer.sources,
                                  responseTime, quality)
            /\ lastStored' = Remember(lastStored, query, answer.response, answer.sources,
                                       responseTime, quality, now)
    /\ UNCHANGED <<now, embeddingCache, steps>>
    /\ UNCHANGED notCache

(***************************************************************************)
(* QueryAnalyzer: determineSearchStrategy and enhanceQuery                 *)
(***************************************************************************)
Categories == {"factual", "analytical", "comparative", "procedural", "conceptual"}

Complexities == {"simple", "moderate", "complex"}

Strategies == {"semantic", "hybrid", "keyword", "multi_step"}

\* the analyses that decide a strategy: 5 x 3 x 2
AnalysisSpace ==
    [category : Categories, complexity : Complexities, requires_multiple_docs : BOOLEAN]

determineSearchStrategy(analysis) ==
    IF analysis.requires_multiple_docs THEN "multi_step"
    ELSE IF analysis.complexity = "complex" THEN "hybrid"
    ELSE IF analysis.category = "factual" /\ analysis.complexity = "simple" THEN "keyword"
    ELSE "semantic"

OriginalQuery == "what is rag"

\* what the gateway answers to the enhancement prompt: it throws, or its text is
\* not JSON, or it is the JSON null, or it is a JSON object
EnhancementOutcomes ==
    [kind : {"throws", "unparsable", "null"}, optimized_query : {NULL}, strategy : {NULL}]
    \cup [kind : {"object"},
          optimized_query : {NULL, "", OriginalQuery, "rag definition"},
          strategy : Strategies \cup {NULL}]

\* x || y on strings
OrElse(x, y) == IF x = NULL \/ x = "" THEN y ELSE x

\* the value enhanceQuery returns
enhanceQueryResult(originalQuery, analysis, outcome) ==
    IF outcome.kind \in {"throws", "null"}
    THEN \* the outer catch
         [original_query |-> originalQuery,
          optimized_query |-> originalQuery,
          search_strategy |-> determineSearchStrategy(analysis),
          enhancement_applied |-> FALSE]
    ELSE LET enhancement ==
                 IF outcome.kind = "unparsable"
                 THEN [optimized_query |-> originalQuery,
                       strategy |-> determineSearchStrategy(analysis)]
                 ELSE [optimized_query |-> outcome.optimized_query,
                       strategy |-> outcome.strategy]
         IN  [original_query |-> originalQuery,
              optimized_query |-> OrElse(enhancement.optimized_query, originalQuery),
              search_strategy |->
                  OrElse(enhancement.strategy, determineSearchStrategy(analysis)),
              enhancement_applied |-> enhancement.optimized_query # originalQuery]

notAnalyzer ==
    <<now, queryCache, embeddingCache, stats, ret, lastStored, steps,
      requests, search, evaluation, summarize, clustering, analyzer>>

\* enhanceQuery is called and awaits the gateway
EnhanceQueryCall ==
    /\ enhance.pc \in {"idle", "done"}
    /\ \E analysis \in AnalysisSpace :
            enhance' = [pc |-> "awaiting", analysis |-> analysis]
    /\ UNCHANGED notAnalyzer

\* the gateway call of enhanceQuery ends
EnhanceQueryReturn ==
    /\ enhance.pc = "awaiting"
    /\ \E outcome \in EnhancementOutcomes :
            enhance' = [pc |-> "done", analysis |-> enhance.analysis,
                        outcome |-> outcome,
                        result |-> enhanceQueryResult(OriginalQuery, enhance.analysis,
                                                      outcome)]
    /\ UNCHANGED notAnalyzer

AnalyzerNext == EnhanceQueryCall \/ EnhanceQueryReturn

(***************************************************************************)
(* HybridRetriever                                                         *)
(***************************************************************************)
NoAnalysis == [category |-> NULL, complexity |-> NULL, requires_multiple_docs |-> FALSE]

\* the optional analysisData argument
SearchAnalyses == AnalysisSpace \cup {NoAnalysis}

\* mutant: conceptual questions are searched with the hybrid strategy
determineOptimalStrategyNoSemantic(analysis) ==
    IF analysis = NoAnalysis THEN "hybrid"
    ELSE IF analysis.requires_multiple_docs THEN "multi_step"
    ELSE IF analysis.complexity = "complex" THEN "hybrid"
    ELSE IF analysis.category = "factual" /\ analysis.complexity = "simple" THEN "keyword"
    ELSE "hybrid"

determineOptimalStrategy(analysis) ==
    IF analysis = NoAnalysis THEN "hybrid"
    ELSE IF analysis.requires_multiple_docs THEN "multi_step"
    ELSE IF analysis.complexity = "complex" THEN "hybrid"
    ELSE IF analysis.category = "factual" /\ analysis.complexity = "simple" THEN "keyword"
    ELSE IF analysis.category = "conceptual" THEN "semantic"
    ELSE "hybrid"

\* semanticWeight and keywordWeight, in tenths
calculateWeights(analysis) ==
    CASE analysis = NoAnalysis -> [semanticWeight |-> 7, keywordWeight |-> 3]
      [] analysis.category = "factual" -> [semanticWeight |-> 4, keywordWeight |-> 6]
      [] analysis.category = "conceptual" -> [semanticWeight |-> 8, keywordWeight |-> 2]
      [] analysis.category = "analytical" -> [semanticWeight |-> 6, keywordWeight |-> 4]
      [] analysis.category = "comparative" -> [semanticWeight |-> 7, keywordWeight |-> 3]
      [] analysis.category = "procedural" -> [semanticWeight |-> 5, keywordWeight |-> 5]
      [] OTHER -> [semanticWeight |-> 7, keywordWeight |-> 3]

\* what a store call answers: it throws, it returns {error}, or it returns rows
\* (data null counts as no rows)
StoreOutcomes == {"throws", "error", "null", "rows0", "rows2"}

RowsOf(outcome) == IF outcome = "rows2" THEN 2 ELSE 0

\* the search_method column of the rows the backend returns: absent on the first
RowSearchMethod(i) == IF i = 1 THEN NULL ELSE "semantic"

\* the mapped rows of the adaptive_search call, by their searchMethod
PrimaryResults(kind, outcome) ==
    [i \in 1..RowsOf(outcome) |->
        [chunkIndex |-> i,
         searchMethod |-> IF kind = "multi_step" THEN "multi_step"
                          ELSE OrElse(RowSearchMethod(i), "unknown")]]

FallbackResults(outcome) ==
    [i \in 1..RowsOf(outcome) |-> [chunkIndex |-> i, searchMethod |-> "fallback_semantic"]]

\* the value of a successful hybridSearch or multiStepSearch
PrimaryValue(kind, analysis, outcome) ==
    [results |-> PrimaryResults(kind, outcome),
     metrics |->
        IF kind = "multi_step"
        THEN [totalResults |-> RowsOf(outcome), strategy |-> "multi_step",
              semanticWeight |-> 6, keywordWeight |-> 4, queryOptimization |-> TRUE]
        ELSE [totalResults |-> RowsOf(outcome),
              strategy |-> determineOptimalStrategy(analysis),  \* searchStrategy
              semanticWeight |-> calculateWeights(analysis).semanticWeight,
              keywordWeight |-> calculateWeights(analysis).keywordWeight,
              queryOptimization |-> analysis # NoAnalysis]]

\* the value of a successful fallbackSearch
FallbackValue(outcome) ==
    [results |-> FallbackResults(outcome),
     metrics |-> [totalResults |-> RowsOf(outcome), strategy |-> "fallback_semantic",
                  semanticWeight |-> 10, keywordWeight |-> 0,
                  queryOptimization |-> FALSE]]

FailedValue ==
    [results |-> << >>,
     metrics |-> [totalResults |-> 0, strategy |-> "failed",
                  semanticWeight |-> 0, keywordWeight |-> 0,
                  queryOptimization |-> FALSE]]

\* mutant: fallbackSearch without its catch: the exception reaches the caller
FallbackFailureRaises(sr) ==
    [sr EXCEPT !.pc = "raised", !.fallbackFailed = TRUE]

\* the catch of fallbackSearch
FallbackFailure(sr) ==
    [sr EXCEPT !.pc = "done", !.fallbackFailed = TRUE, !.value = Some(FailedValue)]

notRetriever ==
    <<now, queryCache, embeddingCache, stats, ret, lastStored, steps,
      requests, enhance, evaluation, summarize, clustering, analyzer>>

\* hybridSearch or multiStepSearch is called: it awaits embedQuery
SearchCall ==
    /\ search.pc \in {"idle", "done", "raised"}
    /\ \E kind \in {"hybrid", "multi_step"}, analysis \in SearchAnalyses :
            /\ kind = "multi_step" => analysis # NoAnalysis
            /\ search' = [pc |-> "embedQuery", kind |-> kind, analysis |-> analysis,
                           searchstrategy |-> None,
                           primaryFailed |-> FALSE, fallbackFailed |-> FALSE,
                           value |-> None]
    /\ UNCHANGED notRetriever

\* the searchstrategy parameter of the adaptive_search call
SentStrategy(kind, analysis) ==
    IF kind = "multi_step" THEN "multi_step" ELSE determineOptimalStrategy(analysis)

\* embeddings.embedQuery of the primary search ends; on success adaptive_search
\* is called
SearchEmbedded ==
    /\ search.pc = "embedQuery"
    /\ \E ok \in BOOLEAN :
            search' = IF ok
                      THEN [search EXCEPT
                                !.pc = "adaptive_search",
                                !.searchstrategy =
                                    Some(SentStrategy(search.kind, search.analysis))]
                      ELSE [search EXCEPT !.pc = "fallback_embedQuery",
                                          !.primaryFailed = TRUE]
    /\ UNCHANGED notRetriever

\* supabase.rpc('adaptive_search') ends
AdaptiveSearchReturn ==
    /\ search.pc = "adaptive_search"
    /\ \E outcome \in StoreOutcomes :
            search' = IF outcome \in {"throws", "error"}
                      THEN [search EXCEPT !.pc = "fallback_embedQuery",
                                          !.primaryFailed = TRUE]
                      ELSE [search EXCEPT
                                !.pc = "done",
                                !.value = Some(PrimaryValue(search.kind, search.analysis,
                                                            outcome))]
    /\ UNCHANGED notRetriever

\* embeddings.embedQuery of fallbackSearch ends
FallbackEmbedded ==
    /\ search.pc = "fallback_embedQuery"
    /\ \E ok \in BOOLEAN :
            search' = IF ok
                      THEN [search EXCEPT !.pc = "fallback_select"]
                      ELSE FallbackFailure(search)
    /\ UNCHANGED notRetriever

\* the select of fallbackSearch ends
FallbackSelectReturn ==
    /\ search.pc = "fallback_select"
    /\ \E outcome \in StoreOutcomes :
            search' = IF outcome \in {"throws", "error"}
                      THEN FallbackFailure(search)
                      ELSE [search EXCEPT !.pc = "done",
                                          !.value = Some(FallbackValue(outcome))]
    /\ UNCHANGED notRetriever

RetrieverNext ==
    \/ SearchCall
    \/ SearchEmbedded
    \/ AdaptiveSearchReturn
    \/ FallbackEmbedded
    \/ FallbackSelectReturn

(***************************************************************************)
(* ResponseQualityEvaluator                                                *)
(***************************************************************************)
MaxEvaluations == 2

Dimensions ==
    {"overall", "relevance", "accuracy", "completeness", "clarity", "coherence",
     "sourceUtilization", "confidence"}

\* a QualityScore with the same value in every dimension but confidence
UniformScore(score, confidence) ==
    [overall |-> score, relevance |-> score, accuracy |-> score,
     completeness |-> score, clarity |-> score, coherence |-> score,
     sourceUtilization |-> score, confidence |-> confidence]

\* JavaScript values found in the model's JSON: undefined (an absent property),
\* numbers (in hundredths) and strings
Undefined == <<"undefined">>

Num(n) == <<"number", n>>

Str(text) == <<"string", text>>

Truthy(v) ==
    CASE v[1] = "undefined" -> FALSE
      [] v[1] = "number" -> v[2] # 0
      [] v[1] = "string" -> v[2] # ""

\* a || b
Or(a, b) == IF Truthy(a) THEN a ELSE b

\* obj.name
GetProp(obj, name) == IF name \in DOMAIN obj THEN obj[name] ELSE Undefined

\* parseFloat: None is NaN
parseFloat(v) ==
    CASE v[1] = "number" -> Some(v[2])
      [] v[1] = "string" /\ v[2] = "0.8" -> Some(80)
      [] OTHER -> None

clampScore(score) ==
    IF score = Undefined THEN 50
    ELSE LET num == parseFloat(score)
         IN  IF num = None THEN 50 ELSE Max(0, Min(100, num[1]))

\* a parsed JSON value: null, or an object
JsonNull == <<"null">>

JsonObject(obj) == <<"object", obj>>

validateQualityScore(scoreObj) ==
    IF scoreObj[1] # "object"
    THEN UniformScore(70, 70)
    ELSE LET o == scoreObj[2]
         IN  [overall |-> clampScore(Or(GetProp(o, "overall"), GetProp(o, "Overall"))),
              relevance |->
                  clampScore(Or(GetProp(o, "relevance"), GetProp(o, "Relevance"))),
              accuracy |->
                  clampScore(Or(GetProp(o, "accuracy"), GetProp(o, "Accuracy"))),
              completeness |->
                  clampScore(Or(GetProp(o, "completeness"), GetProp(o, "Completeness"))),
              clarity |-> clampScore(Or(GetProp(o, "clarity"), GetProp(o, "Clarity"))),
              coherence |->
                  clampScore(Or(GetProp(o, "coherence"), GetProp(o, "Coherence"))),
              sourceUtilization |->
                  clampScore(Or(Or(GetProp(o, "sourceUtilization"),
                                   GetProp(o, "SourceUtilization")),
                                GetProp(o, "source_utilization"))),
              confidence |->
                  clampScore(Or(GetProp(o, "confidence"), GetProp(o, "Confidence")))]

\* a QualityScore read back as the object it is
AsObject(qualityScore) ==
    JsonObject([d \in Dimensions |-> Num(qualityScore[d])])

createFallbackQualityScore == UniformScore(60, 30)

\* the objects the model may answer with: `overall` and its alias vary, the
\* other dimensions carry one value, sourceUtilization comes under its alias
RawOveralls ==
    {Undefined, Num(0), Num(0 - 30), Num(74), Num(75), Num(170), Str("abc"), Str("0.8")}

RawAliases == {Undefined, Num(90)}

RawObject(overall, alias) ==
    [overall |-> overall, Overall |-> alias,
     relevance |-> Num(40), accuracy |-> Num(40), completeness |-> Num(40),
     clarity |-> Num(40), coherence |-> Num(40),
     source_utilization |-> Num(60), confidence |-> Num(90)]

\* how model.invoke ends and what safeJSONParse makes of the content
EvaluationOutputs ==
    {[kind |-> "throws", value |-> JsonNull],
     [kind |-> "unparsable", value |-> JsonNull],
     [kind |-> "parsed", value |-> JsonNull]}
    \cup {[kind |-> "parsed", value |-> JsonObject(RawObject(o, a))] :
             o \in RawOveralls, a \in RawAliases}

\* the value of performAIEvaluation
performAIEvaluation(output) ==
    CASE output.kind = "throws" -> createFallbackQualityScore
      [] output.kind = "unparsable" ->
            validateQualityScore(AsObject(UniformScore(70, 50)))
      [] output.kind = "parsed" -> validateQualityScore(output.value)

\* mutant: the quality threshold is exclusive
shouldCacheResponseAbove(qualityScore, processingTime) ==
    qualityScore.overall > 75 \/ processingTime >= 5000

shouldCacheResponse(qualityScore, processingTime) ==
    qualityScore.overall >= 75 \/ processingTime >= 5000

EvaluatedResponses == {"r1", "r2"}

ProcessingTimes == {4999, 5000}

\* md5(question + response.substring(0, 200)) in hexadecimal
generateEvaluationHash(question, response) ==
    IF response = "r1" THEN "0cc175b9" ELSE "92eb5ffe"

\* `quality:${hash}`
EvaluationCacheKey(question, response) ==
    <<"quality:", generateEvaluationHash(question, response)>>

generateEvaluationId(evaluations) == <<"eval", Len(evaluations) + 1>>

\* the evaluator of a build: `require` is defined in a CommonJS build only
NewEvaluator(requireDefined) ==
    [pc |-> "idle", requireDefined |-> requireDefined, evaluations |-> << >>,
     response |-> NULL, processingTime |-> 0, startTime |-> 0,
     origin |-> "none", output |-> None, result |-> None]

\* the end of evaluateResponse on its main path
EvaluationDone(ev, response, processingTime, qualityScore, origin, output) ==
    LET record == [id |-> generateEvaluationId(ev.evaluations),
                   response |-> response,
                   qualityScore |-> qualityScore,
                   processingTime |-> processingTime]
    IN  [ev EXCEPT
            !.pc = "done",
            !.response = response,
            !.processingTime = processingTime,
            !.evaluations = Append(@, record),
            !.origin = origin,
            !.output = output,
            !.result = Some([evaluation |-> record,
                             shouldCache |->
                                 shouldCacheResponse(qualityScore, processingTime)])]

\* the catch of evaluateResponse
EvaluationFailed(ev, response, processingTime) ==
    [ev EXCEPT
        !.pc = "done",
        !.response = response,
        !.processingTime = processingTime,
        !.origin = "catch",
        !.output = None,
        !.result = Some([evaluation |->
                             [id |-> generateEvaluationId(ev.evaluations),
                              response |-> response,
                              qualityScore |-> UniformScore(70, 30),
                              processingTime |-> processingTime],
                         shouldCache |-> FALSE])]

\* evaluateResponse up to its first wait on the model: the hash, the lookup of
\* a cached evaluation and, on a hit, the rest of the call
EvaluateResponse ==
    /\ evaluation.pc \in {"idle", "done"}
    /\ Len(evaluation.evaluations) < MaxEvaluations
    /\ \E response \in EvaluatedResponses, processingTime \in ProcessingTimes :
          IF ~evaluation.requireDefined
          THEN /\ evaluation' = EvaluationFailed(evaluation, response, processingTime)
               /\ UNCHANGED <<queryCache, stats, ret>>
          ELSE LET cacheKey == EvaluationCacheKey("q", response)
                   hit == QueryLookupOutcome(queryCache, QueryKey(cacheKey), now) = "hit"
                   cachedScore == MapGet(queryCache, QueryKey(cacheKey)).data
               IN  /\ getCachedQueryResponse(cacheKey)
                   /\ evaluation' =
                          IF hit
                          THEN EvaluationDone(evaluation, response, processingTime,
                                   validateQualityScore(AsObject(cachedScore.analysis)),
                                   "cache", Some(AsObject(cachedScore.analysis)))
                          ELSE [evaluation EXCEPT !.pc = "model.invoke",
                                                  !.response = response,
                                                  !.processingTime = processingTime,
                                                  !.startTime = now,
                                                  !.origin = "none",
                                                  !.output = None,
                                                  !.result = None]
    /\ UNCHANGED <<now, embeddingCache, lastStored, steps,
                   requests, search, enhance, summarize, clustering, analyzer>>

\* model.invoke of performAIEvaluation ends: the score is validated, cached,
\* recorded and returned
EvaluationModelReturn ==
    /\ evaluation.pc = "model.invoke"
    /\ \E output \in EvaluationOutputs :
          LET qualityScore == performAIEvaluation(output)
              cacheKey == EvaluationCacheKey("q", evaluation.response)
          IN  /\ cacheQueryResponse(cacheKey, qualityScore, << >>, <<"json">>, << >>,
                                    now - evaluation.startTime, qualityScore.confidence)
              /\ evaluation' =
                     EvaluationDone(evaluation, evaluation.response,
                                    evaluation.processingTime, qualityScore,
                                    "model", Some(output.value))
    /\ UNCHANGED <<now, embeddingCache, lastStored, steps,
                   requests, search, enhance, summarize, clustering, analyzer>>

EvaluatorNext == EvaluateResponse \/ EvaluationModelReturn

EvaluatorInit ==
    /\ CacheInit
    /\ requests = << >>
    /\ search = [pc |-> "idle"]
    /\ enhance = [pc |-> "idle"]
    /\ summarize = [pc |-> "idle"]
    /\ clustering = NewClusteringService
    /\ analyzer = NewQueryAnalyzer
    /\ evaluation \in {NewEvaluator(requireDefined) : requireDefined \in BOOLEAN}

(***************************************************************************)
(* DocumentSummarizer and the summarization routes                         *)
(***************************************************************************)
MaxSummaryRequests == 1

minContentLength == 500
chunkSize == 4000
batchSize == 3
maxBatchDocuments == 10

\* a document is known by the length of its content: one content per length
ContentLengths == {499, 500}

\* the `documents` array of POST /batch: up to one request more than a group
BatchInputs == UNION {[1..n -> ContentLengths] : n \in 0..(batchSize + 1)}

\* md5(content) in hexadecimal
generateDocumentHash(length) ==
    CASE length = 499 -> "35f4a8d4"
      [] length = 500 -> "cee63112"
      [] OTHER -> "d41d8cd9"

\* `summary:${hash}`
SummaryCacheKey(length) == <<"summary:", generateDocumentHash(length)>>

\* textSplitter.splitText: the number of chunks, overlap left aside
Chunks(length) == (length + chunkSize - 1) \div chunkSize

\* how the final-summary call ends: a JSON object with a summary, the fallback
\* object (gateway error or unparsable text), or JSON without a summary
SummaryOutcomes == {"summary", "fallback", "no_summary"}

generateSummaryId(summaries) == <<"summary", Len(summaries) + 1>>

\* the DocumentSummary of a finished summarization
NewDocumentSummary(summaries, length, outcome) ==
    [id |-> generateSummaryId(summaries),
     originalLength |-> length,
     summary |-> IF outcome = "summary" THEN "abstract" ELSE "chunk summaries",
     confidence |-> IF outcome = "summary" THEN 80 ELSE 60]

\* cached.id && cached.summary
validateDocumentSummary(cached) ==
    /\ "id" \in DOMAIN cached
    /\ "summary" \in DOMAIN cached
    /\ cached.summary # ""

\* the summarizer of a build: `require` is defined in a CommonJS build only
NewSummarizer(requireDefined) ==
    [pc |-> "idle", requireDefined |-> requireDefined, route |-> "none",
     documents |-> << >>, status |-> << >>, value |-> << >>, i |-> 1,
     results |-> << >>, log |-> << >>, summaries |-> << >>, invoked |-> {},
     served |-> 0, response |-> None]

\* the requests of the group that starts at index i
GroupOf(sm) == sm.i .. Min(sm.i + batchSize - 1, Len(sm.documents))

Unsettled(sm) == {j \in 1..Len(sm.status) : sm.status[j] \in {"new", "pending"}}

\* a request as the route hands it over
NewRequest(sm, route, documents, status, pc) ==
    [sm EXCEPT !.pc = pc, !.route = route, !.documents = documents,
               !.status = status, !.value = [j \in 1..Len(documents) |-> None],
               !.i = 1, !.results = << >>, !.log = << >>, !.served = @ + 1,
               !.response = None]

BadRequest(sm, route, documents, error) ==
    [NewRequest(sm, route, documents, [j \in 1..Len(documents) |-> "rejected"],
                "responded")
        EXCEPT !.response = Some([status |-> 400, error |-> error, successCount |-> 0])]

notSummarizer ==
    <<now, embeddingCache, lastStored, steps, requests, search, enhance, evaluation,
      clustering, analyzer>>

\* POST /summarize: the requests answered 400 before the summarizer is called
PostSummarizeRejects(length) == length = 0 \/ length < minContentLength

\* POST /summarize up to the call of summarizeDocument
PostSummarize ==
    /\ summarize.pc \in {"idle", "responded"}
    /\ Unsettled(summarize) = {}
    /\ summarize.served < MaxSummaryRequests
    /\ \E length \in ContentLengths \cup {0} :
          summarize' =
              IF PostSummarizeRejects(length)
              THEN BadRequest(summarize, "single", <<length>>,
                              IF length = 0 THEN "required" ELSE "too short")
              ELSE NewRequest(summarize, "single", <<length>>, <<"new">>, "running")
    /\ UNCHANGED <<queryCache, stats, ret>>
    /\ UNCHANGED notSummarizer

\* POST /batch up to the call of batchSummarize
PostBatch ==
    /\ summarize.pc \in {"idle", "responded"}
    /\ Unsettled(summarize) = {}
    /\ summarize.served < MaxSummaryRequests
    /\ \E documents \in BatchInputs :
          summarize' =
              IF Len(documents) = 0
              THEN BadRequest(summarize, "batch", documents, "required")
              ELSE IF Len(documents) > maxBatchDocuments
              THEN BadRequest(summarize, "batch", documents, "too many")
              ELSE NewRequest(summarize, "batch", documents,
                              [j \in 1..Len(documents) |-> "waiting"], "group")
    /\ UNCHANGED <<queryCache, stats, ret>>
    /\ UNCHANGED notSummarizer

\* batchSummarize: the next group is sliced and summarizeDocument is called on
\* each of its requests
BatchGroupStart ==
    /\ summarize.pc = "group"
    /\ summarize' =
          [summarize EXCEPT
              !.pc = "running",
              !.status = [j \in 1..Len(@) |->
                             IF j \in GroupOf(summarize) THEN "new" ELSE @[j]],
              !.log = Append(@, <<"group", summarize.i>>)]
    /\ UNCHANGED <<queryCache, stats, ret>>
    /\ UNCHANGED notSummarizer

\* summarizeDocument up to the chunk analysis: the hash and the cache lookup
SummaryLookup ==
    /\ \E j \in 1..Len(summarize.status) :
          /\ summarize.status[j] = "new"
          /\ \A h \in 1..(j - 1) : summarize.status[h] # "new"
          /\ IF ~summarize.requireDefined
             THEN /\ summarize' = [summarize EXCEPT !.status[j] = "failed"]
                  /\ UNCHANGED <<queryCache, stats, ret>>
             ELSE LET cacheKey == SummaryCacheKey(summarize.documents[j])
                      hit == QueryLookupOutcome(queryCache, QueryKey(cacheKey), now)
                                 = "hit"
                      cached == MapGet(queryCache, QueryKey(cacheKey)).data
                  IN  /\ getCachedQueryResponse(cacheKey)
                      /\ summarize' =
                             IF hit /\ validateDocumentSummary(cached.analysis)
                             THEN [summarize EXCEPT
                                      !.status[j] = "hit",
                                      !.value[j] = Some(cached.analysis)]
                             ELSE [summarize EXCEPT !.status[j] = "pending"]
    /\ UNCHANGED notSummarizer

\* the rest of summarizeDocument: the chunks are analysed, the final summary is
\* made, stored and cached, or the call fails
SummaryFinish ==
    /\ \A h \in 1..Len(summarize.status) : summarize.status[h] # "new"
    /\ \E j \in 1..Len(summarize.status), outcome \in SummaryOutcomes :
          /\ summarize.status[j] = "pending"
          /\ LET length == summarize.documents[j]
                 documentSummary ==
                     NewDocumentSummary(summarize.summaries, length, outcome)
             IN  IF outcome = "no_summary"
                 THEN /\ summarize' =
                            [summarize EXCEPT !.status[j] = "failed",
                                              !.invoked = @ \cup {length}]
                      /\ UNCHANGED <<queryCache, stats, ret>>
                 ELSE /\ summarize' =
                            [summarize EXCEPT
                                !.status[j] = "done",
                                !.value[j] = Some(documentSummary),
                                !.invoked = @ \cup {length},
                                !.summaries = Append(@, documentSummary)]
                      /\ cacheQueryResponse(SummaryCacheKey(length), documentSummary,
                                            << >>, <<"summary-json">>, << >>, 0,
                                            documentSummary.confidence)
    /\ UNCHANGED notSummarizer

RECURSIVE GroupResults(_, _)
\* the values of the requests js, in request order
GroupResults(sm, js) ==
    IF js = {} THEN << >>
    ELSE LET j == CHOOSE x \in js : \A y \in js : x <= y
         IN  <<sm.value[j][1]>> \o GroupResults(sm, js \ {j})

\* `i + batchSize < requests.length`
PauseFollows(sm) == sm.i - 1 + batchSize < Len(sm.documents)

\* batchSummarize: Promise.all of the group settles; the loop goes on and, past
\* the last group, POST /batch answers
BatchGroupEnd ==
    /\ summarize.pc = "running"
    /\ summarize.route = "batch"
    /\ LET group == GroupOf(summarize)
           failed == \E j \in group : summarize.status[j] = "failed"
           fulfilled == \A j \in group : summarize.status[j] \in {"hit", "done"}
           results == IF failed THEN summarize.results
                      ELSE summarize.results \o GroupResults(summarize, group)
           log == IF failed THEN Append(summarize.log, <<"failed", summarize.i>>)
                  ELSE IF PauseFollows(summarize)
                       THEN Append(summarize.log, <<"pause", summarize.i>>)
                       ELSE summarize.log
           last == summarize.i + batchSize > Len(summarize.documents)
       IN  /\ failed \/ fulfilled
           /\ \A j \in group : summarize.status[j] # "new"
           /\ summarize' =
                  [summarize EXCEPT
                      !.pc = IF last THEN "responded" ELSE "group",
                      !.i = @ + batchSize,
                      !.results = results,
                      !.log = log,
                      !.response =
                          IF last
                          THEN Some([status |-> 200, error |-> "none",
                                     successCount |-> Len(results)])
                          ELSE None]
    /\ UNCHANGED <<queryCache, stats, ret>>
    /\ UNCHANGED notSummarizer

\* POST /summarize answers: the summary, or 500 when summarizeDocument raised
SummarizeRespond ==
    /\ summarize.pc = "running"
    /\ summarize.route = "single"
    /\ summarize.status[1] \in {"hit", "done", "failed"}
    /\ summarize' =
          [summarize EXCEPT
              !.pc = "responded",
              !.results = IF summarize.status[1] = "failed" THEN << >>
                          ELSE <<summarize.value[1][1]>>,
              !.response =
                  IF summarize.status[1] = "failed"
                  THEN Some([status |-> 500, error |-> "failed", successCount |-> 0])
                  ELSE Some([status |-> 200, error |-> "none", successCount |-> 1])]
    /\ UNCHANGED <<queryCache, stats, ret>>
    /\ UNCHANGED notSummarizer

SummarizerNext ==
    \/ PostSummarize
    \/ PostBatch
    \/ BatchGroupStart
    \/ SummaryLookup
    \/ SummaryFinish
    \/ BatchGroupEnd
    \/ SummarizeRespond

SummarizerInit ==
    /\ CacheInit
    /\ requests = << >>
    /\ search = [pc |-> "idle"]
    /\ enhance = [pc |-> "idle"]
    /\ evaluation = [pc |-> "idle"]
    /\ clustering = NewClusteringService
    /\ analyzer = NewQueryAnalyzer
    /\ summarize \in {NewSummarizer(requireDefined) : requireDefined \in BOOLEAN}

(***************************************************************************)
(* POST /chat                                                              *)
(***************************************************************************)
MaxRequests == 2

\* req.body.question: two questions and the empty string
ChatQuestions == {<<"Q">>, <<"p">>, << >>}

\* what analyzeQuery returns for a question, as far as the route uses it
ChatAnalysis(question) ==
    IF question = <<"Q">>
    THEN [category |-> "factual", complexity |-> "simple", confidence |-> 90,
          requires_multiple_docs |-> FALSE]
    ELSE [category |-> "analytical", complexity |-> "complex", confidence |-> 30,
          requires_multiple_docs |-> TRUE]

\* how long retrieval and generation take
Elapsed == {1000, 4000}

\* the rows retrieval may return
RetrievedSources == {<< >>, <<"doc1.pdf", "doc2.pdf">>}

\* how the generation stream ends: after all its chunks, after none (no chunk
\* has content), or with an exception after the first chunk or before it
StreamOutcomes == {"complete", "empty", "broken", "refused"}

StreamedText(outcome) ==
    CASE outcome = "complete" -> <<"a1", "a3">>
      [] outcome = "broken" -> <<"a1">>
      [] OTHER -> << >>

\* Math.min(queryAnalysis.confidence * 1.2, 1.0)
BoostedQuality(confidence) == Min((confidence * 12) \div 10, 100)

\* mutant: an answer is stored only if it has more than two sources
ChatStoresManySources(fullResponse, sources) ==
    fullResponse # << >> /\ Len(sources) > 2

\* mutant: an answer is stored as soon as it has some text
ChatStoresAnyText(fullResponse, sources) == fullResponse # << >>

\* `fullResponse && sources.length > 0`
ChatStores(fullResponse, sources) == fullResponse # << >> /\ Len(sources) > 0

Finished(rs) == {i \in 1..Len(rs) : rs[i].pc = "done"}

NewChatRequest(question) ==
    [question |-> question, pc |-> "analyze", status |-> 200,
     startTime |-> now, prior |-> Finished(requests),
     cacheHit |-> FALSE, analysis |-> None, retrieved |-> << >>,
     analyzerCalls |-> 0, retrieverCalls |-> 0, generationCalls |-> 0,
     evaluatorCalls |-> 0,
     fullResponse |-> << >>, sources |-> << >>, stored |-> FALSE,
     stream |-> "none", finishedAt |-> 0]

EndChatRequest(r) ==
    [r EXCEPT !.pc = "done", !.finishedAt = now]

notChat == <<embeddingCache, search, enhance, evaluation, summarize, clustering, analyzer>>

\* a request arrives: the question is checked and looked up in the cache; a hit
\* is answered from the entry
ChatLookupOf(questions) ==
    /\ Len(requests) < MaxRequests
    /\ \E question \in questions :
          LET r == NewChatRequest(question)
          IN  IF question = << >>
              THEN /\ requests' = Append(requests, EndChatRequest([r EXCEPT !.status = 400]))
                   /\ UNCHANGED <<queryCache, stats, ret>>
              ELSE LET key == QueryKey(question)
                       hit == QueryLookupOutcome(queryCache, key, now) = "hit"
                       cachedResponse == MapGet(queryCache, key).data
                   IN  /\ getCachedQueryResponse(question)
                       /\ requests' =
                              Append(requests,
                                     IF hit
                                     THEN EndChatRequest(
                                              [r EXCEPT
                                                  !.cacheHit = TRUE,
                                                  !.fullResponse = cachedResponse.response,
                                                  !.sources = cachedResponse.sources])
                                     ELSE r)
    /\ UNCHANGED <<now, lastStored, steps>>
    /\ UNCHANGED notChat

\* analyzeQuery and enhanceQuery
ChatAnalyze ==
    /\ \E i \in 1..Len(requests) :
          /\ requests[i].pc = "analyze"
          /\ requests' = [requests EXCEPT
                             ![i].pc = "retrieve",
                             ![i].analysis = Some(ChatAnalysis(requests[i].question)),
                             ![i].analyzerCalls = @ + 2]
    /\ UNCHANGED <<now, queryCache, stats, ret, lastStored, steps>>
    /\ UNCHANGED notChat

\* runEnhancedRetrieval up to the search metrics: without results the
\* generator ends with an error chunk
ChatRetrieve ==
    /\ \E i \in 1..Len(requests), rows \in RetrievedSources :
          /\ requests[i].pc = "retrieve"
          /\ requests' = [requests EXCEPT
                             ![i].pc = IF rows = << >> THEN "store" ELSE "generate",
                             ![i].retrieved = rows,
                             ![i].retrieverCalls = @ + 1]
    /\ UNCHANGED <<now, queryCache, stats, ret, lastStored, steps>>
    /\ UNCHANGED notChat

\* model.stream and the loop over its chunks; the sources follow a stream that
\* ended without an exception
ChatGenerate ==
    /\ \E i \in 1..Len(requests), outcome \in StreamOutcomes, d \in Elapsed :
          /\ requests[i].pc = "generate"
          /\ d <= MaxClock - now
          /\ now' = now + d
          /\ requests' = [requests EXCEPT
                             ![i].pc = "store",
                             ![i].generationCalls = @ + 1,
                             ![i].stream = outcome,
                             ![i].fullResponse = StreamedText(outcome),
                             ![i].sources = IF outcome \in {"complete", "empty"}
                                            THEN requests[i].retrieved
                                            ELSE << >>]
    /\ UNCHANGED <<queryCache, stats, ret, lastStored, steps>>
    /\ UNCHANGED notChat

\* after the loop: the answer is cached if there is one, and the response ends;
\* the route makes no call to the ResponseQualityEvaluator, whose count stays 0
ChatStore ==
    /\ \E i \in 1..Len(requests) :
          LET r == requests[i]
              quality == BoostedQuality(r.analysis[1].confidence)
          IN  /\ r.pc = "store"
              /\ IF ChatStores(r.fullResponse, r.sources)
                 THEN /\ cacheQueryResponse(r.question, r.analysis[1], << >>,
                                            r.fullResponse, r.sources,
                                            now - r.startTime, quality)
                      /\ lastStored' = Remember(lastStored, r.question, r.fullResponse,
                                                 r.sources, now - r.startTime, quality,
                                                 now)
                      /\ requests' = [requests EXCEPT
                                         ![i] = EndChatRequest([r EXCEPT !.stored = TRUE])]
                 ELSE /\ requests' = [requests EXCEPT ![i] = EndChatRequest(r)]
                      /\ UNCHANGED <<queryCache, stats, ret, lastStored>>
    /\ UNCHANGED <<now, steps>>
    /\ UNCHANGED notChat

ChatLookup == ChatLookupOf(ChatQuestions)

ChatNext ==
    \/ ChatLookup
    \/ ChatAnalyze
    \/ ChatRetrieve
    \/ ChatGenerate
    \/ ChatStore

(***************************************************************************)
(* DocumentClusteringService: similarity and K-means                       *)
(*                                                                         *)
(* An embedding is a sequence of small non-negative integers.  Every       *)
(* cosine is then in [0,1], and it is kept as the exact fraction num/den   *)
(* of its SQUARE, so that cosines are compared without a square root.  A   *)
(* centroid is kept as the sum of its members' embeddings: the code        *)
(* divides the sum by the member count, which changes no cosine.           *)
(***************************************************************************)
MaxClusteringRuns == 2

maxIterations == 20

RECURSIVE DotProduct(_, _)
DotProduct(vecA, vecB) ==
    IF vecA = << >> \/ vecB = << >> THEN 0
    ELSE Head(vecA) * Head(vecB) + DotProduct(Tail(vecA), Tail(vecB))

\* the square of dotProduct / (sqrt(normA) * sqrt(normB)); 0 for vectors of
\* different lengths and for a vector of norm 0
calculateCosineSimilarity(vecA, vecB) ==
    LET dotProduct == DotProduct(vecA, vecB)
        normA == DotProduct(vecA, vecA)
        normB == DotProduct(vecB, vecB)
    IN  IF Len(vecA) # Len(vecB) THEN [num |-> 0, den |-> 1]
        ELSE IF normA = 0 \/ normB = 0 THEN [num |-> 0, den |-> 1]
        ELSE [num |-> dotProduct * dotProduct, den |-> normA * normB]

\* x > y for two cosines
Greater(x, y) == x.num * y.den > y.num * x.den

\* x >= thousandths / 1000 for a cosine x
AtLeast(x, thousandths) ==
    thousandths <= 0 \/ x.num * 1000000 >= thousandths * thousandths * x.den

\* x > thousandths / 1000 for a cosine x
Above(x, thousandths) ==
    thousandths < 0 \/ x.num * 1000000 > thousandths * thousandths * x.den

\* 1 - x > tolerance for a cosine x and tolerance = 0.001, that is
\* x^2 < 0.998001, that is (den - num) * 10^6 > 1999 * den
FartherThanTolerance(x) ==
    IF x.den - x.num > 2000 THEN TRUE
    ELSE (x.den - x.num) * 1000000 > 1999 * x.den

determineOptimalClusterCount(numDocuments) ==
    IF numDocuments < 5 THEN 2
    ELSE IF numDocuments < 10 THEN 3
    ELSE IF numDocuments < 20 THEN (numDocuments + 3) \div 4
    ELSE Min((numDocuments + 4) \div 5, 10)

\* the largest cosine between an embedding and the centroids chosen so far:
\* Math.min over the distances 1 - cosine
RECURSIVE ClosestCentroidSimilarity(_, _)
ClosestCentroidSimilarity(embedding, centroids) ==
    LET first == calculateCosineSimilarity(embedding, Head(centroids))
    IN  IF Len(centroids) = 1 THEN first
        ELSE CHOOSE best \in
                 {IF Greater(rest, first) THEN rest ELSE first :
                     rest \in {ClosestCentroidSimilarity(embedding, Tail(centroids))}} :
                 TRUE

\* the inner loop of initializeCentroids over the documents j not used yet;
\* bestIdx = 0 stands for bestIdx = -1, bestDistance = -1
RECURSIVE FarthestDocument(_, _, _, _, _)
FarthestDocument(documents, centroids, used, j, bestIdx) ==
    IF j > Len(documents) THEN bestIdx
    ELSE IF j \in used THEN FarthestDocument(documents, centroids, used, j + 1, bestIdx)
    ELSE IF bestIdx = 0
            \/ Greater(ClosestCentroidSimilarity(documents[bestIdx].embedding, centroids),
                       ClosestCentroidSimilarity(documents[j].embedding, centroids))
         THEN FarthestDocument(documents, centroids, used, j + 1, j)
         ELSE FarthestDocument(documents, centroids, used, j + 1, bestIdx)

\* the outer loop of initializeCentroids (k never exceeds the number of
\* documents, so that an unused document is always left)
RECURSIVE ChooseCentroids(_, _, _, _)
ChooseCentroids(documents, k, centroids, used) ==
    IF Len(centroids) >= k THEN centroids
    ELSE LET bestIdx == FarthestDocument(documents, centroids, used, 1, 0)
         IN  ChooseCentroids(documents, k,
                             Append(centroids, documents[bestIdx].embedding),
                             used \cup {bestIdx})

\* firstIdx is Math.floor(Math.random() * documents.length) + 1
initializeCentroids(documents, k, firstIdx) ==
    ChooseCentroids(documents, k, <<documents[firstIdx].embedding>>, {firstIdx})

\* the loop of findNearestCentroid; bestCluster = 0 stands for bestSimilarity = -1
RECURSIVE NearestFrom(_, _, _, _)
NearestFrom(embedding, centroids, i, bestCluster) ==
    IF i > Len(centroids) THEN bestCluster
    ELSE IF bestCluster = 0
            \/ Greater(calculateCosineSimilarity(embedding, centroids[i]),
                       calculateCosineSimilarity(embedding, centroids[bestCluster]))
         THEN NearestFrom(embedding, centroids, i + 1, i)
         ELSE NearestFrom(embedding, centroids, i + 1, bestCluster)

\* the index of the nearest centroid, counted from 1 (the code counts from 0)
findNearestCentroid(embedding, centroids) ==
    Max(NearestFrom(embedding, centroids, 1, 0), 1)

\* an array built element by element
Array(f) == f \o << >>

Assignments(documents, centroids) ==
    Array([d \in 1..Len(documents) |->
              findNearestCentroid(documents[d].embedding, centroids)])

\* component j of the sum of the embeddings of the members of a cluster
RECURSIVE SumOfMembers(_, _, _, _, _)
SumOfMembers(documents, assignments, cluster, j, d) ==
    IF d > Len(documents) THEN 0
    ELSE (IF assignments[d] = cluster THEN documents[d].embedding[j] ELSE 0)
         + SumOfMembers(documents, assignments, cluster, j, d + 1)

\* a cluster without members keeps the vector of zeros
updateCentroids(documents, assignments, k) ==
    Array([i \in 1..k |->
              Array([j \in 1..Len(documents[1].embedding) |->
                        SumOfMembers(documents, assignments, i, j, 1)])])

centroidsConverged(oldCentroids, newCentroids) ==
    \A i \in 1..Len(oldCentroids) :
        ~FartherThanTolerance(calculateCosineSimilarity(oldCentroids[i], newCentroids[i]))

\* the refinement loop of performKMeansClustering from round `iteration` on:
\* the centroids it ends with, the rounds it ran and whether it stopped early.
\* A round that leaves the centroids as they are without converging is
\* followed by identical rounds up to maxIterations, which are not replayed.
RECURSIVE RefineCentroids(_, _, _, _)
RefineCentroids(documents, centroids, k, iteration) ==
    IF iteration >= maxIterations
    THEN [centroids |-> centroids, rounds |-> iteration, converged |-> FALSE]
    ELSE CHOOSE result \in
             {IF centroidsConverged(centroids, newCentroids)
              THEN [centroids |-> centroids, rounds |-> iteration + 1, converged |-> TRUE]
              ELSE IF newCentroids = centroids
              THEN [centroids |-> centroids, rounds |-> maxIterations, converged |-> FALSE]
              ELSE RefineCentroids(documents, newCentroids, k, iteration + 1) :
                 newCentroids \in
                     {updateCentroids(documents, Assignments(documents, centroids), k)}} :
             TRUE

ClusterId(i) == <<"cluster_", i - 1>>

\* mutant: cluster i takes the documents whose nearest centroid is i or one
\* before it
ClusterDocsUpTo(documents, nearest, i) ==
    LET members == SelectSeq(Array([d \in 1..Len(documents) |-> d]),
                             LAMBDA d : nearest[d] <= i)
    IN  Array([m \in 1..Len(members) |->
                  [documents[members[m]] EXCEPT !.cluster_id = ClusterId(i)]])

\* the documents of cluster i, with cluster_id set as createClusters sets it;
\* nearest[d] is findNearestCentroid(documents[d].embedding, centroids)
ClusterDocs(documents, nearest, i) ==
    LET members == SelectSeq(Array([d \in 1..Len(documents) |-> d]),
                             LAMBDA d : nearest[d] = i)
    IN  Array([m \in 1..Len(members) |->
                  [documents[members[m]] EXCEPT !.cluster_id = ClusterId(i)]])

\* the topics that at least Math.ceil(30%) of the members carry, five at most
\* (the documents of one run all carry the same topics in this model)
CommonTopics(clusterDocs) == clusterDocs[1].topics

NewCluster(documents, centroids, nearest, i) ==
    LET members == ClusterDocs(documents, nearest, i)
        clusterDocs ==
            Array([m \in 1..Len(members) |->
                      [members[m] EXCEPT
                          !.similarity_to_centroid =
                              calculateCosineSimilarity(members[m].embedding,
                                                        centroids[i])]])
    IN  [id |-> ClusterId(i),
         centroid |-> centroids[i],
         documents |-> clusterDocs,
         size |-> Len(clusterDocs),
         topics |-> CommonTopics(clusterDocs)]

\* createClusters from centroid i on: a centroid that attracts no document
\* is skipped
RECURSIVE createClusters(_, _, _, _)
createClusters(documents, centroids, nearest, i) ==
    IF i > Len(centroids) THEN << >>
    ELSE IF ClusterDocs(documents, nearest, i) = << >>
         THEN createClusters(documents, centroids, nearest, i + 1)
         ELSE <<NewCluster(documents, centroids, nearest, i)>>
              \o createClusters(documents, centroids, nearest, i + 1)

\* the document map after the refill: Map.set for every member of every cluster
\* (the ids of the rows of one load are distinct)
RECURSIVE DocumentsOf(_)
DocumentsOf(clusters) ==
    IF clusters = << >> THEN << >>
    ELSE Head(clusters).documents \o DocumentsOf(Tail(clusters))

(***************************************************************************)
(* DocumentClusteringService: a clustering run                             *)
(*                                                                         *)
(* A run is cut where it awaits input or output: the select of             *)
(* loadDocuments and the gateway calls of extractTopicsForDocuments.  The  *)
(* awaits that follow (calculateSimilarityMatrix, createClusters,          *)
(* updateClusteringResults) are on functions that do no input or output,   *)
(* so their continuations run in the same turn of the event loop.          *)
(***************************************************************************)
\* the rows of the documents table that a load can find: embeddings in the
\* order of the select
Corpora ==
    { << <<1, 0>> >>,
      << <<1, 0>>, <<0, 1>> >>,
      << <<1, 1>>, <<1, 1>>, <<1, 1>>, <<1, 1>> >>,
      << <<2, 0>>, <<2, 1>>, <<1, 1>>, <<1, 2>>, <<0, 2>> >> }

\* what the select gives: the rows, or an error (None)
LoadOutcomes == {Some(rows) : rows \in Corpora} \cup {None}

\* row.id.toString() of the i-th row
DocumentId(i) == <<"1", "2", "3", "4", "5", "6", "7", "8", "9">>[i]

loadDocuments(rows) ==
    Array([i \in 1..Len(rows) |->
              [id |-> DocumentId(i), embedding |-> rows[i], cluster_id |-> "",
               similarity_to_centroid |-> [num |-> 0, den |-> 1], topics |-> << >>]])

EmbeddingsOf(documents) == Array([d \in 1..Len(documents) |-> documents[d].embedding])

\* the refinement loop of performKMeansClustering on the rows of a load, from
\* the first centroid firstIdx, and the nearest centroid of every document at
\* its end: computed once for every load and every first centroid
KMeans(rows, firstIdx) ==
    LET documents == loadDocuments(rows)
        k == determineOptimalClusterCount(Len(documents))
        refinement == RefineCentroids(documents,
                                      initializeCentroids(documents, k, firstIdx), k, 0)
    IN  [embeddings |-> rows, firstIdx |-> firstIdx, k |-> k,
         centroids |-> refinement.centroids, rounds |-> refinement.rounds,
         converged |-> refinement.converged,
         nearest |-> Assignments(documents, refinement.centroids)]

KMeansRuns ==
    UNION {{KMeans(rows, firstIdx) : firstIdx \in 1..Len(rows)} :
              rows \in {c \in Corpora : Len(c) >= 2}}

\* the cache key `topics:${doc.id}` of extractTopicsFromDocument
TopicsCacheKey(id) == <<"t", "o", "p", "i", "c", "s", ":", id>>

\* what the gateway gives for the topic prompt: a parsable answer, or not
TopicOutcomes == {"parsed", "failed"}

extractTopicsFromText(outcome) ==
    IF outcome = "parsed"
    THEN [topics |-> <<"rag">>, keywords |-> <<"pdf">>, confidence |-> 90,
          summary |-> <<"s1">>]
    ELSE [topics |-> <<"general">>, keywords |-> << >>, confidence |-> 30,
          summary |-> <<"s0">>]

\* extractTopicsFromDocument for document d on the cache state c = [qc, st]:
\* the lookup, and on a miss the gateway call and the store
extractTopicsFromDocument(doc, c, outcome, t) ==
    LET key == QueryKey(TopicsCacheKey(doc.id))
        lookup == QueryLookupOutcome(c.qc, key, t)
        qc1 == CASE lookup = "miss" -> c.qc
                 [] lookup = "expired" -> MapDelete(c.qc, key)
                 [] lookup = "hit" -> MapSet(c.qc, key, Touch(MapGet(c.qc, key), t))
        st1 == updateStats(c.st, IF lookup = "hit" THEN "hit" ELSE "miss",
                           qc1, embeddingCache)
        result == extractTopicsFromText(outcome)
        entry == NewQueryEntry(TopicsCacheKey(doc.id),
                               [topics |-> result.topics, keywords |-> result.keywords,
                                summary |-> result.summary],
                               << >>, result.summary, << >>, 0, result.confidence, t)
        qc2 == StoreQueryEntry(qc1, entry)
    IN  IF lookup = "hit"
        THEN [doc |-> [doc EXCEPT !.topics = MapGet(c.qc, key).data.analysis.topics],
              qc |-> qc1, st |-> st1, gatewayCalls |-> c.gatewayCalls]
        ELSE [doc |-> [doc EXCEPT !.topics = result.topics],
              qc |-> qc2, st |-> updateStats(st1, "cache", qc2, embeddingCache),
              gatewayCalls |-> c.gatewayCalls + 1]

\* extractTopicsForDocuments from document d on: the documents with their
\* topics, the cache as the calls leave it and the number of gateway calls
RECURSIVE extractTopicsForDocuments(_, _, _, _, _)
extractTopicsForDocuments(documents, d, c, outcome, t) ==
    IF d > Len(documents)
    THEN [documents |-> documents, qc |-> c.qc, st |-> c.st,
          gatewayCalls |-> c.gatewayCalls]
    ELSE CHOOSE result \in
             {extractTopicsForDocuments([documents EXCEPT ![d] = one.doc], d + 1,
                                        [qc |-> one.qc, st |-> one.st,
                                         gatewayCalls |-> one.gatewayCalls],
                                        outcome, t) :
                 one \in {extractTopicsFromDocument(documents[d], c, outcome, t)}} : TRUE

calculateSimilarityMatrix(documents) ==
    [documentIds |-> Array([i \in 1..Len(documents) |-> documents[i].id])]

\* mutant: the window in which a run is skipped is three hours
shouldSkipWithinThreeHours(cl, t) ==
    cl.lastClusteringRun # None /\ t - cl.lastClusteringRun[1] < 3 * HourMs

shouldSkipClustering(cl, t) ==
    cl.lastClusteringRun # None /\ t - cl.lastClusteringRun[1] < 6 * HourMs

createEmptyMetrics ==
    [totalClusters |-> 0, totalDocuments |-> 0, avgClusterSize |-> 0,
     silhouetteScore |-> 0, intraClusterDistance |-> 0, interClusterDistance |-> 0,
     topicCoverage |-> 0]

calculateTopicCoverage(clusters) ==
    Min(Cardinality(UNION {{clusters[i].topics[j] : j \in 1..Len(clusters[i].topics)} :
                            i \in 1..Len(clusters)}) * 10, 100)

\* avgClusterSize and topicCoverage in hundredths; the three figures derived
\* from the clusters' average coherence are real-valued and kept as terms
calculateMetrics(cl) ==
    IF Len(cl.clusters) = 0 \/ Len(cl.documents) = 0 THEN createEmptyMetrics
    ELSE [totalClusters |-> Len(cl.clusters),
          totalDocuments |-> Len(cl.documents),
          avgClusterSize |-> (Len(cl.documents) * 100) \div Len(cl.clusters),
          silhouetteScore |-> <<"avgCoherence">>,
          intraClusterDistance |-> <<"1 - avgCoherence">>,
          interClusterDistance |-> <<"avgCoherence * 0.7">>,
          topicCoverage |-> calculateTopicCoverage(cl.clusters)]

\* a call of performDocumentClustering that awaits loadDocuments
NewRun(forceReclustering) ==
    [pc |-> "load", force |-> forceReclustering, documents |-> << >>]

\* what is kept of the call that returned last: how it ended ("skipped",
\* "empty", "clustered" or "failed"), what it did and what it returned
Returned(force, status, loads, gatewayCalls, numDocuments, k, refinement, clusters, metrics) ==
    [force |-> force, status |-> status, loads |-> loads,
     gatewayCalls |-> gatewayCalls, numDocuments |-> numDocuments, k |-> k,
     rounds |-> refinement.rounds, converged |-> refinement.converged,
     embeddings |-> refinement.embeddings, firstIdx |-> refinement.firstIdx,
     totalClusters |-> Len(clusters), metrics |-> metrics]

NoRefinement == [rounds |-> 0, converged |-> FALSE, embeddings |-> << >>, firstIdx |-> 0]

RemoveAt(s, i) == SubSeq(s, 1, i - 1) \o SubSeq(s, i + 1, Len(s))

notClustering ==
    <<embeddingCache, ret, lastStored, steps, requests, search, enhance, evaluation,
      summarize, analyzer>>

\* performDocumentClustering is called: it returns the metrics of the maps at
\* once when the last run is recent and it is not forced, and otherwise
\* awaits loadDocuments
PerformDocumentClustering ==
    \E forceReclustering \in BOOLEAN :
        /\ clustering.calls < MaxClusteringRuns
        /\ IF ~forceReclustering /\ shouldSkipClustering(clustering, now)
           THEN clustering' =
                    [clustering EXCEPT
                        !.calls = @ + 1,
                        !.returned = Some(Returned(forceReclustering, "skipped", 0, 0, 0, 0,
                                                   NoRefinement, clustering.clusters,
                                                   calculateMetrics(clustering)))]
           ELSE clustering' =
                    [clustering EXCEPT
                        !.calls = @ + 1,
                        !.runs = Append(@, NewRun(forceReclustering))]
        /\ UNCHANGED <<now, queryCache, stats>>
        /\ UNCHANGED notClustering

\* loadDocuments returns: the error is thrown again, fewer than 2 documents
\* give the empty metrics, and otherwise extractTopicsForDocuments starts
LoadDocumentsReturn ==
    \E r \in 1..Len(clustering.runs), data \in LoadOutcomes :
        LET run == clustering.runs[r]
            rows == IF data = None THEN << >> ELSE data[1]
        IN  /\ run.pc = "load"
            /\ clustering' =
                 IF data = None
                 THEN [clustering EXCEPT
                          !.runs = RemoveAt(@, r),
                          !.returned = Some(Returned(run.force, "failed", 1, 0, 0, 0,
                                                     NoRefinement, << >>, None))]
                 ELSE IF Len(rows) < 2
                 THEN [clustering EXCEPT
                          !.runs = RemoveAt(@, r),
                          !.returned = Some(Returned(run.force, "empty", 1, 0, Len(rows), 0,
                                                     NoRefinement, << >>,
                                                     Some(createEmptyMetrics)))]
                 ELSE [clustering EXCEPT
                          !.runs[r] = [run EXCEPT !.pc = "topics",
                                                  !.documents = loadDocuments(rows)]]
            /\ UNCHANGED <<now, queryCache, stats>>
            /\ UNCHANGED notClustering

\* the last gateway call of extractTopicsForDocuments returns: the topics are
\* cached, the similarity matrix is replaced, K-means runs from a random
\* first centroid, the maps are cleared and refilled, the metrics are
\* computed and lastClusteringRun is set
ExtractTopicsReturn ==
    \E r \in 1..Len(clustering.runs), outcome \in TopicOutcomes :
        LET run == clustering.runs[r]
        IN  /\ run.pc = "topics"
            /\ \E refinement \in {km \in KMeansRuns :
                                      km.embeddings = EmbeddingsOf(run.documents)},
                  extracted \in {extractTopicsForDocuments(run.documents, 1,
                                                           [qc |-> queryCache, st |-> stats,
                                                            gatewayCalls |-> 0],
                                                           outcome, now)} :
               \E clusters \in {createClusters(extracted.documents, refinement.centroids,
                                                refinement.nearest, 1)} :
                 LET documents == extracted.documents
                     optimalK == refinement.k
                     replaced ==
                         [clustering EXCEPT
                             !.similarityMatrix = Some(calculateSimilarityMatrix(documents)),
                             !.clusters = clusters,
                             !.documents = DocumentsOf(clusters),
                             !.epoch = @ + 1]
                 IN  /\ queryCache' = extracted.qc
                     /\ stats' = extracted.st
                     /\ clustering' =
                          [replaced EXCEPT
                              !.lastClusteringRun = Some(now),
                              !.runs = RemoveAt(@, r),
                              !.returned =
                                  Some(Returned(run.force, "clustered", 1,
                                                extracted.gatewayCalls, Len(documents),
                                                optimalK, refinement, clusters,
                                                Some(calculateMetrics(replaced))))]
            /\ UNCHANGED now
            /\ UNCHANGED notClustering

\* time passes, three hours at a time
ClusteringTick ==
    /\ now < 6 * HourMs
    /\ now' = now + 3 * HourMs
    /\ UNCHANGED <<queryCache, stats, clustering>>
    /\ UNCHANGED notClustering

ClusteringNext ==
    \/ PerformDocumentClustering
    \/ LoadDocumentsReturn
    \/ ExtractTopicsReturn
    \/ ClusteringTick

(***************************************************************************)
(* DocumentClusteringService: findSimilarDocuments                         *)
(*                                                                         *)
(* The call awaits only expandSimilaritySearch, which does no input or     *)
(* output: it reads both maps in one turn of the event loop.  A threshold  *)
(* is in thousandths and a similarity is the cosine's exact fraction.      *)
(***************************************************************************)
\* this.documents.get(documentId)
GetDocument(documents, documentId) ==
    LET found == SelectSeq(documents, LAMBDA doc : doc.id = documentId)
    IN  IF found = << >> THEN None ELSE Some(found[1])

getDocumentsInCluster(clusters, clusterId) ==
    LET cluster == SelectSeq(clusters, LAMBDA c : c.id = clusterId)
    IN  IF cluster = << >> THEN << >> ELSE cluster[1].documents

SimilarityReason(similarity) ==
    IF Above(similarity, 900) THEN "Very high content similarity"
    ELSE IF Above(similarity, 800) THEN "High content similarity"
    ELSE "Similar topics and content"

SimilarityResult(doc, similarity, reason) ==
    [document |-> doc, similarity |-> similarity, reason |-> reason]

\* the loop of findSimilarDocuments over the documents of the target's cluster
RECURSIVE SameClusterScan(_, _, _, _, _)
SameClusterScan(clusterDocs, d, targetDoc, threshold, similarities) ==
    IF d > Len(clusterDocs) THEN similarities
    ELSE LET doc == clusterDocs[d]
             similarity == calculateCosineSimilarity(targetDoc.embedding, doc.embedding)
         IN  IF doc.id = targetDoc.id
             THEN SameClusterScan(clusterDocs, d + 1, targetDoc, threshold, similarities)
             ELSE IF AtLeast(similarity, threshold)
             THEN SameClusterScan(clusterDocs, d + 1, targetDoc, threshold,
                                  Append(similarities,
                                         SimilarityResult(doc, similarity,
                                                          SimilarityReason(similarity))))
             ELSE SameClusterScan(clusterDocs, d + 1, targetDoc, threshold, similarities)

\* the loop of expandSimilaritySearch over the document map, left as soon as
\* `limit` results are held
RECURSIVE ExpandFrom(_, _, _, _, _, _)
ExpandFrom(documents, d, targetDoc, limit, threshold, results) ==
    IF d > Len(documents) THEN results
    ELSE LET doc == documents[d]
             similarity == calculateCosineSimilarity(targetDoc.embedding, doc.embedding)
             pushed == IF AtLeast(similarity, threshold)
                       THEN Append(results,
                                   SimilarityResult(doc, similarity,
                                                    "Cross-cluster similarity"))
                       ELSE results
         IN  IF doc.id = targetDoc.id \/ doc.cluster_id = targetDoc.cluster_id
             THEN ExpandFrom(documents, d + 1, targetDoc, limit, threshold, results)
             ELSE IF Len(pushed) >= limit THEN pushed
             ELSE ExpandFrom(documents, d + 1, targetDoc, limit, threshold, pushed)

\* sort((a, b) => b.similarity - a.similarity), stable: r goes after the
\* results that are not below it
RECURSIVE InsertBySimilarity(_, _)
InsertBySimilarity(sorted, r) ==
    IF sorted = << >> THEN <<r>>
    ELSE IF Greater(r.similarity, Head(sorted).similarity) THEN <<r>> \o sorted
    ELSE <<Head(sorted)>> \o InsertBySimilarity(Tail(sorted), r)

RECURSIVE SortBySimilarity(_)
SortBySimilarity(results) ==
    IF results = << >> THEN << >>
    ELSE InsertBySimilarity(SortBySimilarity(SubSeq(results, 1, Len(results) - 1)),
                            results[Len(results)])

expandSimilaritySearch(documents, targetDoc, limit, threshold) ==
    SortBySimilarity(ExpandFrom(documents, 1, targetDoc, limit, threshold, << >>))

\* Array.prototype.slice(0, end): a negative end counts from the end
Slice(s, end) ==
    SubSeq(s, 1, IF end < 0 THEN Max(Len(s) + end, 0) ELSE Min(end, Len(s)))

\* threshold * 0.9
ExpansionThreshold(threshold) == (threshold * 9) \div 10

findSimilarDocuments(cl, documentId, limit, threshold) ==
    LET target == GetDocument(cl.documents, documentId)
        targetDoc == target[1]
        similarities == SameClusterScan(getDocumentsInCluster(cl.clusters,
                                                              targetDoc.cluster_id),
                                        1, targetDoc, threshold, << >>)
        expanded ==
            IF Len(similarities) < limit
            THEN similarities
                 \o expandSimilaritySearch(cl.documents, targetDoc,
                                           limit - Len(similarities),
                                           ExpansionThreshold(threshold))
            ELSE similarities
    IN  IF target = None THEN << >>
        ELSE Slice(SortBySimilarity(expanded), limit)

SimilarLimits == {-1, 0, 1, 2, 5}

SimilarThresholds == {500, 700, 900}

DocumentIds == {DocumentId(i) : i \in 1..6}

FindSimilarDocuments ==
    \E documentId \in DocumentIds, limit \in SimilarLimits,
       threshold \in SimilarThresholds :
        /\ clustering' =
             [clustering EXCEPT
                 !.found = Some([documentId |-> documentId, limit |-> limit,
                                 threshold |-> threshold,
                                 results |-> findSimilarDocuments(clustering, documentId,
                                                                  limit, threshold)])]
        /\ UNCHANGED <<now, queryCache, stats>>
        /\ UNCHANGED notClustering

\* the service as a run at time 0 leaves it: the maps, the topics in the
\* query cache and what the run returned
AfterRun(refinement, outcome) ==
    LET extracted == extractTopicsForDocuments(loadDocuments(refinement.embeddings), 1,
                                               [qc |-> << >>, st |-> resetStats,
                                                gatewayCalls |-> 0],
                                               outcome, 0)
        clusters == createClusters(extracted.documents, refinement.centroids,
                                   refinement.nearest, 1)
        replaced == [NewClusteringService EXCEPT
                        !.similarityMatrix =
                            Some(calculateSimilarityMatrix(extracted.documents)),
                        !.clusters = clusters,
                        !.documents = DocumentsOf(clusters),
                        !.epoch = 1,
                        !.calls = 1]
    IN  [qc |-> extracted.qc, st |-> extracted.st,
         clustering |->
             [replaced EXCEPT
                 !.lastClusteringRun = Some(0),
                 !.returned = Some(Returned(FALSE, "clustered", 1, extracted.gatewayCalls,
                                            Len(extracted.documents), refinement.k,
                                            refinement, clusters,
                                            Some(calculateMetrics(replaced))))]]

SimilarInit ==
    /\ now = 0
    /\ embeddingCache = << >>
    /\ lastStored = [q \in NormalisedQueries |-> None]
    /\ ret = NoCall
    /\ steps = 0
    /\ requests = << >>
    /\ search = [pc |-> "idle"]
    /\ enhance = [pc |-> "idle"]
    /\ evaluation = [pc |-> "idle"]
    /\ summarize = [pc |-> "idle"]
    /\ analyzer = NewQueryAnalyzer
    /\ \/ /\ queryCache = << >>
          /\ stats = resetStats
          /\ clustering = NewClusteringService
       \/ \E refinement \in KMeansRuns, outcome \in TopicOutcomes :
              \E after \in {AfterRun(refinement, outcome)} :
                  /\ queryCache = after.qc
                  /\ stats = after.st
                  /\ clustering = after.clustering

SimilarNext == FindSimilarDocuments

(***************************************************************************)
(* DocumentClusteringService: getDocumentRecommendations                   *)
(*                                                                         *)
(* The call is cut at its two awaits of input or output: embedQuery and    *)
(* the gateway call of extractTopicsFromText.  It reads the document map   *)
(* between them and both maps after the second.  `seen` lists, for every   *)
(* read of a map, how many times the maps had been replaced by then.       *)
(***************************************************************************)
MaxRecommendations == 1

RecommendationLimit == 3

\* what embedQuery gives for the query: an embedding, or an exception
EmbedOutcomes == {Some(<<1, 0>>), Some(<<1, 2>>), None}

DocumentsOfResults(results) ==
    Array([i \in 1..Len(results) |-> results[i].document])

findDocumentsByEmbedding(documents, queryEmbedding, limit) ==
    LET similarities ==
            Array([d \in 1..Len(documents) |->
                      [document |-> documents[d],
                       similarity |-> calculateCosineSimilarity(queryEmbedding,
                                                                documents[d].embedding)]])
    IN  DocumentsOfResults(Slice(SortBySimilarity(similarities), limit))

\* topicsA.filter(topic => topicsB.includes(topic))
findSharedTopics(topicsA, topicsB) ==
    SelectSeq(topicsA, LAMBDA topic : \E j \in 1..Len(topicsB) : topicsB[j] = topic)

\* the score of a match is the fraction shared / max of the two lengths
findDocumentsByTopics(documents, queryTopics, limit) ==
    LET scored ==
            Array([d \in 1..Len(documents) |->
                      [document |-> documents[d],
                       similarity |->
                           [num |-> Len(findSharedTopics(queryTopics, documents[d].topics)),
                            den |-> Max(Len(queryTopics), Len(documents[d].topics))]]])
        matches == SelectSeq(scored, LAMBDA m : m.similarity.num > 0)
    IN  DocumentsOfResults(Slice(SortBySimilarity(matches), limit))

\* cluster.documents.sort((a, b) => b.similarity_to_centroid - a.similarity_to_centroid)
SortByCentroidSimilarity(clusterDocs) ==
    DocumentsOfResults(
        SortBySimilarity(Array([d \in 1..Len(clusterDocs) |->
                                   [document |-> clusterDocs[d],
                                    similarity |-> clusterDocs[d].similarity_to_centroid]])))

\* getRecommendationsFromClusters: the first document of each of the `limit`
\* clusters nearest to the query, and the cluster map, in which the member
\* lists of those clusters are now sorted (the sort is in place)
getRecommendationsFromClusters(clusters, queryEmbedding, limit) ==
    LET clusterSimilarities ==
            Array([c \in 1..Len(clusters) |->
                      [document |-> c,
                       similarity |-> calculateCosineSimilarity(queryEmbedding,
                                                                clusters[c].centroid)]])
        visited == DocumentsOfResults(Slice(SortBySimilarity(clusterSimilarities), limit))
        sorted == Array([c \in 1..Len(clusters) |->
                            IF \E v \in 1..Len(visited) : visited[v] = c
                            THEN [clusters[c] EXCEPT
                                     !.documents = SortByCentroidSimilarity(@)]
                            ELSE clusters[c]])
    IN  [results |-> Array([v \in 1..Len(visited) |-> sorted[visited[v]].documents[1]]),
         clusters |-> sorted]

NewReader == [pc |-> "embed", byContent |-> << >>, seen |-> << >>]

\* POST /clustering/recommendations: the call awaits embedQuery
GetDocumentRecommendations ==
    /\ clustering.recommendations < MaxRecommendations
    /\ clustering' = [clustering EXCEPT !.recommendations = @ + 1,
                                        !.readers = Append(@, NewReader)]
    /\ UNCHANGED <<now, queryCache, stats>>
    /\ UNCHANGED notClustering

\* embedQuery returns: findDocumentsByEmbedding reads the document map and the
\* gateway is called for the topics of the query; an exception ends the call
\* with three empty lists
EmbedQueryReturn ==
    \E r \in 1..Len(clustering.readers), data \in EmbedOutcomes :
        LET reader == clustering.readers[r]
        IN  /\ reader.pc = "embed"
            /\ clustering' =
                 IF data = None
                 THEN [clustering EXCEPT
                          !.readers = RemoveAt(@, r),
                          !.recommended = Some([byContent |-> << >>, byTopic |-> << >>,
                                                bySimilarity |-> << >>, seen |-> << >>])]
                 ELSE [clustering EXCEPT
                          !.readers[r] =
                              [pc |-> "topics", queryEmbedding |-> data[1],
                               byContent |-> findDocumentsByEmbedding(clustering.documents,
                                                                      data[1],
                                                                      RecommendationLimit),
                               seen |-> <<clustering.epoch>>]]
            /\ UNCHANGED <<now, queryCache, stats>>
            /\ UNCHANGED notClustering

\* extractTopicsFromText returns: findDocumentsByTopics reads the document map,
\* getRecommendationsFromClusters the cluster map, and the call returns
QueryTopicsReturn ==
    \E r \in 1..Len(clustering.readers), outcome \in TopicOutcomes :
        LET reader == clustering.readers[r]
            queryTopics == extractTopicsFromText(outcome)
        IN  /\ reader.pc = "topics"
            /\ \E fromClusters \in {getRecommendationsFromClusters(clustering.clusters,
                                                                   reader.queryEmbedding,
                                                                   RecommendationLimit)} :
                 clustering' =
                     [clustering EXCEPT
                         !.clusters = fromClusters.clusters,
                         !.readers = RemoveAt(@, r),
                         !.recommended =
                             Some([byContent |-> reader.byContent,
                                   byTopic |-> findDocumentsByTopics(clustering.documents,
                                                                     queryTopics.topics,
                                                                     RecommendationLimit),
                                   bySimilarity |-> fromClusters.results,
                                   seen |-> reader.seen
                                            \o <<clustering.epoch, clustering.epoch>>])]
            /\ UNCHANGED <<now, queryCache, stats>>
            /\ UNCHANGED notClustering

ReadersNext ==
    \/ PerformDocumentClustering
    \/ LoadDocumentsReturn
    \/ ExtractTopicsReturn
    \/ GetDocumentRecommendations
    \/ EmbedQueryReturn
    \/ QueryTopicsReturn

(***************************************************************************)
(* The periodic sweep over a cache that is already in use                  *)
(*                                                                         *)
(* The cache starts as stores and lookups leave it after an hour: an       *)
(* answer of medium priority, up to six answers of low priority, some of   *)
(* them looked up since, an answer of high priority and an embedding.      *)
(***************************************************************************)
SweepQueries == << <<"a">>, <<"b">>, <<"c">>, <<"d">>, <<"e">>, <<"f">> >>

SweepAnalysis == [category |-> "factual", complexity |-> "simple"]

\* the entry of a question stored at time 0 and, when touched, looked up at `t`
SweepEntry(query, response, responseTime, quality, touched, t) ==
    LET entry == NewQueryEntry(query, SweepAnalysis, << >>, response, <<"doc1.pdf">>,
                               responseTime, quality, 0)
    IN  IF touched THEN Touch(entry, t) ELSE entry

SweepQueryCache(n, touched, t) ==
    <<SweepEntry(<<"p">>, <<"a1">>, 5000, 70, FALSE, t)>>
    \o [i \in 1..n |->
           SweepEntry(SweepQueries[i], <<"a1", "a2">>, 5000, 30, i \in touched, t)]
    \o <<SweepEntry(<<"Q">>, <<"a1", "a2">>, 1000, 90, FALSE, t)>>

SweepInit ==
    /\ now = HourMs
    /\ \E n \in 0..Len(SweepQueries) : \E touched \in SUBSET (1..n) :
         /\ queryCache = SweepQueryCache(n, touched, now)
         /\ stats = [resetStats EXCEPT !.totalEntries = n + 3,
                                       !.totalHits = Cardinality(touched)]
    /\ embeddingCache = <<NewEmbeddingEntry(<<"t">>, <<1, 0>>, "m1", 0)>>
    /\ lastStored =
         Remember(Remember([q \in NormalisedQueries |-> None],
                           <<"p">>, <<"a1">>, <<"doc1.pdf">>, 5000, 70, 0),
                  <<"Q">>, <<"a1", "a2">>, <<"doc1.pdf">>, 1000, 90, 0)
    /\ ret = NoCall
    /\ steps = 0
    /\ requests = << >>
    /\ search = [pc |-> "idle"]
    /\ enhance = [pc |-> "idle"]
    /\ evaluation = [pc |-> "idle"]
    /\ summarize = [pc |-> "idle"]
    /\ clustering = NewClusteringService
    /\ analyzer = NewQueryAnalyzer

SweepNext ==
    \/ GetCachedQueryResponse
    \/ GetStats
    \/ PerformCleanup
    \/ Tick

(***************************************************************************)
(* QueryAnalyzer: analyzeQuery and its analysis cache                      *)
(*                                                                         *)
(* The cache is a Map from key to {analysis, timestamp}, kept here in      *)
(* insertion order.  analyzeQuery is cut at its one await of input or      *)
(* output, the call of the classification model.  `inserted` numbers the   *)
(* insertions of keys and `computedFor` names the request an analysis was  *)
(* computed for; the code has neither.                                     *)
(***************************************************************************)
MaxAnalyzerCalls == 2

\* what the analyzer's cache and the clock leave alone
notAnalysis ==
    <<queryCache, embeddingCache, stats, ret, lastStored, steps, requests, search,
      enhance, evaluation, summarize, clustering>>

CACHE_TTL == 60 * 60 * 1000

AnalysisCacheLimit == 1000

KeyLength == 32

DigitChars == <<"0", "1", "2", "3", "4", "5", "6", "7", "8", "9">>

RECURSIVE Digits(_)
\* the decimal digits of a number, as a template literal prints it
Digits(n) ==
    IF n < 10 THEN <<DigitChars[n + 1]>>
    ELSE Digits(n \div 10) \o <<DigitChars[(n % 10) + 1]>>

\* s.slice(0, n) for n >= 0
Take(s, n) == SubSeq(s, 1, IF Len(s) < n THEN Len(s) ELSE n)

RECURSIVE ToBase64(_)
\* Buffer.from(s).toString('base64') of a string of one-byte characters:
\* every three bytes give four characters, the last group padded.  A
\* character of the result is written as <<group of bytes, position>>.
ToBase64(s) ==
    IF s = << >> THEN << >>
    ELSE LET group == Take(s, 3)
         IN  <<<<group, 1>>, <<group, 2>>, <<group, 3>>, <<group, 4>>>>
                 \o ToBase64(SubSeq(s, Len(group) + 1, Len(s)))

\* a request of analyzeQuery: the question and, of the context, the two
\* fields the key is made of
AnalysisRequest(question, session_id, previous) ==
    [question |-> question, session_id |-> session_id, previous |-> previous]

generateCacheKey(request) ==
    LET contextKey == request.session_id \o <<"_">> \o Digits(request.previous)
    IN  Take(ToBase64(request.question \o <<"_">> \o contextKey), KeyLength)

\* the entry of the key is what the Map holds and has lived less than the TTL
AnalysisIsFresh(cache, key, t) ==
    /\ MapHas(cache, key)
    /\ t - MapGet(cache, key).timestamp < CACHE_TTL

\* the analysis of a fresh entry; otherwise the key is deleted and null returned
getCachedAnalysis(cache, key, t) ==
    IF AnalysisIsFresh(cache, key, t)
    THEN [cache |-> cache, analysis |-> Some(MapGet(cache, key).analysis)]
    ELSE [cache |-> MapDelete(cache, key), analysis |-> None]

\* the test that makes an insertion evict
OverAnalysisLimit(cache) == Len(cache) > AnalysisCacheLimit

LastKey(cache) == cache[Len(cache)].key

\* this.cache.keys().next().value of a cache that is not empty
FirstKey(cache) == cache[1].key

\* Map.set: a key the Map holds keeps its place and its insertion number
SetAnalysis(cache, key, analysis, t, insertions) ==
    IF MapHas(cache, key)
    THEN Array([i \in 1..Len(cache) |->
                   IF cache[i].key = key
                   THEN [cache[i] EXCEPT !.analysis = analysis, !.timestamp = t]
                   ELSE cache[i]])
    ELSE Append(cache, [key |-> key, analysis |-> analysis, timestamp |-> t,
                        inserted |-> insertions + 1])

cacheAnalysis(cache, key, analysis, t, insertions) ==
    LET kept == IF OverAnalysisLimit(cache)
                THEN MapDelete(cache, FirstKey(cache))
                ELSE cache
    IN  SetAnalysis(kept, key, analysis, t, insertions)

\* what the classification model gives: content that parses, content that
\* does not parse, or an exception (content that parses to null ends in the
\* same handler as the exception)
ClassificationOutcomes == {"parsed", "unparsable", "failed"}

createFallbackAnalysis(request) ==
    [category |-> "factual", complexity |-> "moderate", parsed |-> FALSE,
     computedFor |-> request]

\* the analysis parsed from the model's content, its missing fields filled
validateAndEnhanceAnalysis(request) ==
    [category |-> "analytical", complexity |-> "moderate", parsed |-> TRUE,
     computedFor |-> request]

TwentyFour == [i \in 1..24 |-> "a"]

AnalysisRequests ==
    {AnalysisRequest(<<"q">>, <<"s">>, 1),
     AnalysisRequest(TwentyFour \o <<"x">>, << >>, 0),
     AnalysisRequest(TwentyFour \o <<"y">>, << >>, 0)}

\* analyzeQuery up to its await: the lookup, and the return of a fresh entry
AnalyzeQuery ==
    /\ analyzer.analyses < MaxAnalyzerCalls
    /\ \E request \in AnalysisRequests :
           \E looked \in {getCachedAnalysis(analyzer.cache, generateCacheKey(request), now)} :
               analyzer' =
                   IF looked.analysis # None
                   THEN [analyzer EXCEPT
                            !.analyses = @ + 1,
                            !.returned = Some([request |-> request,
                                               analysis |-> looked.analysis[1],
                                               fromCache |-> TRUE,
                                               stored |-> FALSE])]
                   ELSE [analyzer EXCEPT
                            !.analyses = @ + 1,
                            !.cache = looked.cache,
                            !.calls = Append(@, [request |-> request,
                                                 key |-> generateCacheKey(request)])]
    /\ UNCHANGED now
    /\ UNCHANGED notAnalysis

\* analyzeQuery after its await: the analysis is made and cached, or the
\* outer handler returns the fallback analysis without caching it
ClassificationReturn ==
    \E i \in 1..Len(analyzer.calls), outcome \in ClassificationOutcomes :
        LET call == analyzer.calls[i]
            analysis == IF outcome = "parsed"
                        THEN validateAndEnhanceAnalysis(call.request)
                        ELSE createFallbackAnalysis(call.request)
            cached == outcome # "failed"
        IN  /\ analyzer' =
                   [analyzer EXCEPT
                       !.calls = RemoveAt(@, i),
                       !.cache = IF cached
                                 THEN cacheAnalysis(@, call.key, analysis, now,
                                                    analyzer.insertions)
                                 ELSE @,
                       !.insertions = IF cached /\ ~MapHas(analyzer.cache, call.key)
                                      THEN @ + 1 ELSE @,
                       !.returned = Some([request |-> call.request,
                                          analysis |-> analysis,
                                          fromCache |-> FALSE,
                                          stored |-> cached])]
            /\ UNCHANGED now
            /\ UNCHANGED notAnalysis

\* time passes, the TTL at a time
AnalysisTick ==
    /\ now < CACHE_TTL
    /\ now' = now + CACHE_TTL
    /\ UNCHANGED analyzer
    /\ UNCHANGED notAnalysis

\* the cache as n calls at time 0, each of a session of its own, leave it
FilledAnalysisCache(n) ==
    Array([i \in 1..n |->
              LET request == AnalysisRequest(<<"p">>, Digits(i), 0)
              IN  [key |-> generateCacheKey(request),
                   analysis |-> validateAndEnhanceAnalysis(request),
                   timestamp |-> 0, inserted |-> i]])

FilledSizes == {0, AnalysisCacheLimit, AnalysisCacheLimit + 1}

AnalysisNext ==
    \/ AnalyzeQuery
    \/ ClassificationReturn
    \/ AnalysisTick

(***************************************************************************)
(* Specifications                                                          *)
(***************************************************************************)
Idle == [pc |-> "idle"]

Init ==
    /\ CacheInit
    /\ requests = << >>
    /\ search = Idle
    /\ enhance = Idle
    /\ evaluation = Idle
    /\ summarize = Idle
    /\ clustering = NewClusteringService
    /\ analyzer = NewQueryAnalyzer

Next == CacheNext

Spec == Init /\ [][Next]_vars

AnalyzerSpec == Init /\ [][AnalyzerNext]_vars

RetrieverSpec == Init /\ [][RetrieverNext]_vars

EvaluatorSpec == EvaluatorInit /\ [][EvaluatorNext]_vars

SummarizerSpec == SummarizerInit /\ [][SummarizerNext]_vars

ChatSpec == Init /\ [][ChatNext]_vars

TTLNext == CacheQueryResponseOverGrid

TTLSpec == Init /\ [][TTLNext]_vars

ClusteringSpec == Init /\ [][ClusteringNext]_vars

SweepSpec == SweepInit /\ [][SweepNext]_vars

SimilarSpec == SimilarInit /\ [][SimilarNext]_vars

ReadersSpec == Init /\ [][ReadersNext]_vars

\* texts a user can send as a question: the keys under which a clustering
\* run stores the topics of its first two documents
InternalKeyTexts == {TopicsCacheKey(DocumentId(i)) : i \in 1..2}

\* POST /chat with any of these texts as the question
ChatLookupOfAnyText == ChatLookupOf(ChatQuestions \cup InternalKeyTexts)

\* the server after a clustering run over two documents at time 0
KeysInit ==
    /\ now = 0
    /\ embeddingCache = << >>
    /\ lastStored = [q \in NormalisedQueries |-> None]
    /\ ret = NoCall
    /\ steps = 0
    /\ requests = << >>
    /\ search = Idle
    /\ enhance = Idle
    /\ evaluation = Idle
    /\ summarize = Idle
    /\ analyzer = NewQueryAnalyzer
    /\ \E refinement \in {r \in KMeansRuns : Len(r.embeddings) = 2},
          outcome \in TopicOutcomes :
           \E after \in {AfterRun(refinement, outcome)} :
               /\ queryCache = after.qc
               /\ stats = after.st
               /\ clustering = after.clustering

KeysNext ==
    \/ ChatLookupOfAnyText
    \/ ChatAnalyze
    \/ ChatRetrieve
    \/ ChatGenerate
    \/ ChatStore

KeysSpec == KeysInit /\ [][KeysNext]_vars

AnalysisInit ==
    /\ CacheInit
    /\ requests = << >>
    /\ search = Idle
    /\ enhance = Idle
    /\ evaluation = Idle
    /\ summarize = Idle
    /\ clustering = NewClusteringService
    /\ \E n \in FilledSizes :
           analyzer = [NewQueryAnalyzer EXCEPT !.cache = FilledAnalysisCache(n),
                                               !.insertions = n]

AnalysisSpec == AnalysisInit /\ [][AnalysisNext]_vars

(***************************************************************************)
(* Claims                                                                  *)
(***************************************************************************)
\* the last call was a lookup that found an entry, still in the map, with
\* (now - created timestamp) > ttl at the time of the lookup
FoundExpired(op) ==
    /\ ret.op = op
    /\ ret.found # None
    /\ ret.at - ret.found[1].timestamp > ret.found[1].ttl

\* C1 as stated: a lookup (getCachedQueryResponse or getCachedEmbedding) that
\* finds an entry with now - created > ttl returns null and deletes the entry.
C1_ExpiredIsMissAndDeleted ==
    /\ FoundExpired("getCachedQueryResponse") =>
            ret.value = None /\ ~MapHas(queryCache, ret.key[1])
    /\ FoundExpired("getCachedEmbedding") =>
            ret.value = None /\ ~MapHas(embeddingCache, ret.key[1])

\* C1 as amended: a lookup that finds an entry with now - created > ttl returns
\* null; getCachedQueryResponse deletes the entry, and getCachedEmbedding
\* deletes it when the requested model is the entry's model (with another model
\* it returns null and leaves the expired entry in the map).
C1_ExpiredNeverReturned ==
    /\ FoundExpired("getCachedQueryResponse") =>
            ret.value = None /\ ~MapHas(queryCache, ret.key[1])
    /\ FoundExpired("getCachedEmbedding") =>
            /\ ret.value = None
            /\ ret.found[1].data.model = ret.arg[2] =>
                    ~MapHas(embeddingCache, ret.key[1])
            /\ ret.found[1].data.model # ret.arg[2] =>
                    MapGet(embeddingCache, ret.key[1]) = ret.found[1]

C1_Witness ==
    /\ FoundExpired("getCachedQueryResponse")
    /\ ret.value = None
    /\ ret.found[1].data.quality > 80

\* C2: a getCachedQueryResponse(q') made after cacheQueryResponse(q, ...) with
\* q' equal to q after lower-casing and trimming, before the TTL of that store
\* has passed and with no later store, invalidation, clear or eviction of the
\* key, returns the response text and the sources list that were stored.
C2_RoundTrip ==
    ret.op = "getCachedQueryResponse" =>
        LET h == lastStored[Normalised(ret.arg)]
        IN  (/\ h # None
             /\ ret.at - h[1].at <= calculateDynamicTTL(h[1].quality, h[1].responseTime))
            => /\ ret.value # None
               /\ ret.value[1].response = h[1].response
               /\ ret.value[1].sources = h[1].sources

C2_Witness ==
    /\ ret.op = "getCachedQueryResponse"
    /\ lastStored[Normalised(ret.arg)] # None
    /\ lastStored[Normalised(ret.arg)][1].query # ret.arg
    /\ ret.at > lastStored[Normalised(ret.arg)][1].at
    /\ ret.value # None
    /\ ret.value[1].response = <<"a1", "a2">>

\* min(base * fq * ft, 7 days), with fq and ft as the fractions fqN/fqD and ftN/ftD
DocumentedTTL(quality, responseTime) ==
    LET fqN == IF quality > 80 THEN 2 ELSE 1
        fqD == IF quality < 50 THEN 2 ELSE 1
        ftN == IF responseTime < 3000 THEN 3 ELSE 1
        ftD == IF responseTime < 3000 THEN 2 ELSE 1
    IN  Min((defaultTTL * fqN * ftN) \div (fqD * ftD), 7 * 24 * HourMs)

EntryWith(e, quality, responseTime) ==
    e.data.quality = quality /\ e.data.responseTime = responseTime

\* C8: the TTL stored with every query-cache entry is min(base * fq * ft, 7 days);
\* the TTL is non-decreasing in quality and non-increasing in response time,
\* TTL(0.9, 1000) > TTL(0.9, 5000) > TTL(0.3, 5000), and no TTL exceeds 7 days.
C8_DynamicTTL ==
    \A i \in 1..Len(queryCache) :
        LET e == queryCache[i]
        IN  /\ e.ttl = DocumentedTTL(e.data.quality, e.data.responseTime)
            /\ e.ttl <= 7 * 24 * HourMs
            /\ \A j \in 1..Len(queryCache) :
                  LET f == queryCache[j]
                  IN  /\ (e.data.quality <= f.data.quality
                           /\ e.data.responseTime = f.data.responseTime)
                          => e.ttl <= f.ttl
                      /\ (e.data.responseTime <= f.data.responseTime
                           /\ e.data.quality = f.data.quality)
                          => e.ttl >= f.ttl
                      /\ (EntryWith(e, 90, 1000) /\ EntryWith(f, 90, 5000))
                          => e.ttl > f.ttl
                      /\ (EntryWith(e, 90, 5000) /\ EntryWith(f, 30, 5000))
                          => e.ttl > f.ttl

C8_Witness ==
    \E i, j \in 1..Len(queryCache) :
        /\ EntryWith(queryCache[i], 30, 1000)
        /\ queryCache[i].ttl = 9 * HourMs
        /\ EntryWith(queryCache[j], 90, 1000)
        /\ queryCache[j].ttl = 36 * HourMs

(***************************************************************************)
(* The documented strategy decision table                                  *)
(***************************************************************************)
DocumentedStrategy(analysis) ==
    IF analysis.requires_multiple_docs THEN "multi_step"
    ELSE IF analysis.complexity = "complex" THEN "hybrid"
    ELSE IF analysis.category = "factual" /\ analysis.complexity = "simple" THEN "keyword"
    ELSE IF analysis.category = "conceptual" THEN "semantic"
    ELSE "hybrid"

\* C4: hybridSearch never raises: whatever fails among the embedding call, the
\* adaptive_search call and the fallback store query, it ends with a
\* {results, metrics} value; after a failure of the primary search the value is
\* the one of the pure-semantic fallback, and after a failure of the fallback
\* too it is an empty result list with metrics.strategy = 'failed'.
C4_HybridSearchNeverRaises ==
    search.pc # "idle" /\ search.kind = "hybrid" =>
        /\ search.pc # "raised"
        /\ search.pc = "done" =>
              /\ search.value # None
              /\ LET v == search.value[1]
                 IN  /\ v.metrics.totalResults = Len(v.results)
                     /\ search.primaryFailed /\ ~search.fallbackFailed =>
                            /\ v.metrics.strategy = "fallback_semantic"
                            /\ v.metrics.semanticWeight = 10
                            /\ v.metrics.keywordWeight = 0
                            /\ \A i \in 1..Len(v.results) :
                                   v.results[i].searchMethod = "fallback_semantic"
                     /\ search.fallbackFailed =>
                            /\ v.results = << >>
                            /\ v.metrics.strategy = "failed"

\* hybridSearch has returned after both the primary search and the fallback failed
C4_Witness ==
    /\ search.pc = "done"
    /\ search.kind = "hybrid"
    /\ search.primaryFailed
    /\ search.fallbackFailed
    /\ search.value = Some(FailedValue)

\* C5: the strategy enhanceQuery reports when the gateway fails or gives no
\* strategy, which is determineSearchStrategy of the analysis, is the value of
\* the documented decision table for each of the 5x3x2 analyses.
C5_AnalyzerMatchesTable ==
    /\ enhance.pc = "done"
    /\ enhance.outcome.strategy = NULL
    => enhance.result.search_strategy = DocumentedStrategy(enhance.analysis)

\* C6: the strategy hybridSearch sends to adaptive_search, and reports in
\* metrics.strategy when the search succeeds, is the value of the documented
\* decision table for the analysis supplied, and 'hybrid' without an analysis.
C6_RetrieverMatchesTable ==
    search.pc # "idle" /\ search.kind = "hybrid" =>
        LET expected == IF search.analysis = NoAnalysis THEN "hybrid"
                        ELSE DocumentedStrategy(search.analysis)
        IN  /\ search.searchstrategy # None => search.searchstrategy[1] = expected
            /\ search.pc = "done" /\ ~search.primaryFailed =>
                   search.value[1].metrics.strategy = expected

\* a successful hybridSearch of a conceptual question of moderate complexity
C6_Witness ==
    /\ search.pc = "done"
    /\ search.kind = "hybrid"
    /\ ~search.primaryFailed
    /\ search.analysis.category = "conceptual"
    /\ search.analysis.complexity = "moderate"
    /\ ~search.analysis.requires_multiple_docs
    /\ search.searchstrategy = Some("semantic")
    /\ search.value[1].metrics.strategy = "semantic"
    /\ Len(search.value[1].results) = 2

ReportedOverall(obj) ==
    IF GetProp(obj, "overall") # Undefined THEN GetProp(obj, "overall")
    ELSE GetProp(obj, "Overall")

InUnitRange(qualityScore) == \A d \in Dimensions : qualityScore[d] \in 0..100

\* C9: every quality score the evaluator returns or stores has its eight
\* dimensions in [0,1]; a dimension the model left out or gave as something
\* that is not a number is 0.5, and one it gave inside [0,1], 0 included,
\* keeps its value.
C9_ScoresValidated ==
    /\ \A i \in 1..Len(evaluation.evaluations) :
           InUnitRange(evaluation.evaluations[i].qualityScore)
    /\ \A i \in 1..Len(queryCache) :
           queryCache[i].data.response = <<"json">> =>
               InUnitRange(queryCache[i].data.analysis)
    /\ evaluation.pc = "done" =>
           /\ InUnitRange(evaluation.result[1].evaluation.qualityScore)
           /\ evaluation.output # None /\ evaluation.output[1][1] = "object" =>
                  LET reported == ReportedOverall(evaluation.output[1][2])
                      overall == evaluation.result[1].evaluation.qualityScore.overall
                  IN  /\ reported[1] # "number" => overall = 50
                      /\ reported[1] = "number" /\ reported[2] \in 0..100 =>
                             overall = reported[2]

\* C10: a document whose content is shorter than 500 characters is never
\* summarized, by POST /summarize or by POST /batch: the request is answered
\* with a validation error, no gateway call is made for the document, and no
\* summary of it is stored or cached.
C10_ShortNeverSummarized ==
    /\ \A length \in summarize.invoked : length >= minContentLength
    /\ \A n \in 1..Len(summarize.summaries) :
           summarize.summaries[n].originalLength >= minContentLength
    /\ \A n \in 1..Len(queryCache) :
           queryCache[n].data.response = <<"summary-json">> =>
               queryCache[n].data.analysis.originalLength >= minContentLength
    /\ summarize.pc = "responded"
          /\ (\E j \in 1..Len(summarize.documents) :
                 summarize.documents[j] < minContentLength)
          => summarize.response[1].status = 400

\* request j arrived after request i had finished, for the same question and
\* sooner than the shortest time to live of an entry
BackToBack(i, j) ==
    /\ i \in requests[j].prior
    /\ requests[i].question = requests[j].question
    /\ requests[i].status = 200
    /\ requests[j].startTime - requests[i].finishedAt < defaultTTL \div 2

AnsweredFromCache(r) ==
    /\ r.cacheHit
    /\ r.analyzerCalls = 0
    /\ r.retrieverCalls = 0
    /\ r.generationCalls = 0

\* C3 as stated: when the same question is asked twice back-to-back through
\* /chat, the second request is a cache hit served without the analyzer, the
\* retriever or the generation model.
C3_SecondIsCacheHit ==
    \A i, j \in 1..Len(requests) : BackToBack(i, j) => AnsweredFromCache(requests[j])

\* C3, amended: the second of two back-to-back requests for the same question
\* is a cache hit served without the analyzer, the retriever or the generation
\* model whenever the first ended with a non-empty answer and at least one
\* source.
C3_SecondIsCacheHitAfterStoredAnswer ==
    \A i, j \in 1..Len(requests) :
        /\ BackToBack(i, j)
        /\ requests[i].fullResponse # << >>
        /\ Len(requests[i].sources) > 0
        => AnsweredFromCache(requests[j])

\* the first request ran the whole pipeline and stored its answer, the second
\* found it
C3_Witness ==
    /\ Len(requests) >= 2
    /\ BackToBack(1, 2)
    /\ ~requests[1].cacheHit
    /\ requests[1].generationCalls = 1
    /\ requests[1].stored
    /\ AnsweredFromCache(requests[2])
    /\ requests[2].fullResponse = requests[1].fullResponse

(***************************************************************************)
(* Document clustering                                                     *)
(***************************************************************************)
\* the cluster count the specification documents for n documents
DocumentedClusterCount(n) ==
    IF n < 5 THEN 2
    ELSE IF n < 10 THEN 3
    ELSE IF n < 20 THEN (n + 3) \div 4
    ELSE Min((n + 4) \div 5, 10)

\* the call that returned last was a run that clustered its documents
Clustered ==
    /\ clustering.returned # None
    /\ clustering.returned[1].status = "clustered"

\* C11: a completed clustering run over n >= 2 documents yields exactly k(n)
\* clusters, k(n) being the documented table (2 below 5 documents, 3 below 10,
\* ceil(n/4) below 20, min(ceil(n/5), 10) from 20 on).
C11_ClusterCountMatchesTable ==
    Clustered =>
        /\ clustering.returned[1].k =
               DocumentedClusterCount(clustering.returned[1].numDocuments)
        /\ clustering.returned[1].totalClusters =
               DocumentedClusterCount(clustering.returned[1].numDocuments)
        /\ Len(clustering.clusters) =
               DocumentedClusterCount(clustering.returned[1].numDocuments)

(***************************************************************************)
(* The periodic sweep                                                      *)
(***************************************************************************)
EntriesOf(m) == {m[i] : i \in DOMAIN m}

\* the documented share of the LRU pass: the least whole number that is at
\* least 20% of L
DocumentedEvictions(L) == CHOOSE m \in 0..L : 5 * m >= L /\ 5 * (m - 1) < L

\* what the LRU pass of a sweep removes: the entries that had not expired and
\* are gone after the sweep
RemovedByLRU ==
    {e \in EntriesOf(KeepUnexpired(queryCache, now)) : e \notin EntriesOf(queryCache')}

LowBeforeLRU ==
    {e \in EntriesOf(KeepUnexpired(queryCache, now)) : e.priority = "low"}

\* C12: the LRU pass of a sweep removes only query entries of priority low:
\* with L of them it removes exactly ceil(0.2 * L), those with the smallest
\* lastAccessed, and no entry of priority medium or high and no embedding.
C12_LRURemovesOldestLowPriority ==
    [][(PerformCleanup /\ MemoryPressure(stats)) =>
          /\ RemovedByLRU \subseteq LowBeforeLRU
          /\ Cardinality(RemovedByLRU) = DocumentedEvictions(Cardinality(LowBeforeLRU))
          /\ \A r \in RemovedByLRU : \A e \in LowBeforeLRU \ RemovedByLRU :
                 r.lastAccessed <= e.lastAccessed
          /\ \A e \in EntriesOf(KeepUnexpired(queryCache, now)) :
                 e.priority \in {"medium", "high"} => e \in EntriesOf(queryCache')
          /\ embeddingCache' = KeepUnexpired(embeddingCache, now)]_vars

\* a sweep under memory pressure has removed the two oldest of six answers of
\* low priority: the four that stay include every one that was looked up
C12_Witness ==
    /\ ret.op = "performCleanup"
    /\ MemoryPressure(stats)
    /\ stats.evictionCount = 2
    /\ Len(LowPriority(queryCache)) = 4
    /\ Cardinality({e \in EntriesOf(queryCache) :
                       e.priority = "low" /\ e.lastAccessed = HourMs}) = 3
    /\ \E e \in EntriesOf(queryCache) : e.priority = "medium"
    /\ \E e \in EntriesOf(queryCache) : e.priority = "high"
    /\ Len(embeddingCache) = 1

\* the footprint updateMemoryUsage would compute for the entries a sweep at
\* `now` leaves after its expiry loops
FootprintOfHeld ==
    MemoryBytes(KeepUnexpired(queryCache, now), KeepUnexpired(embeddingCache, now))

\* C13: a sweep that runs while the footprint of the entries held exceeds 90%
\* of maxMemoryMB executes the LRU pass in that same sweep, whatever calls
\* came before it.
C13_SweepUnderPressureRunsLRU ==
    [][(PerformCleanup /\ MemoryPressure([memoryUsage |-> FootprintOfHeld])) =>
          queryCache' = performLRUEviction(KeepUnexpired(queryCache, now))]_vars

\* C14: right after a sweep no entry of the query cache or of the embedding
\* cache has (sweep time - timestamp) > ttl, and every entry of priority
\* medium or high that had not expired is still there, unchanged.
C14_SweepDeletesExactlyExpired ==
    [][PerformCleanup =>
          /\ \A e \in EntriesOf(queryCache') \cup EntriesOf(embeddingCache') :
                 ~(now - e.timestamp > e.ttl)
          /\ \A e \in EntriesOf(queryCache) :
                 (~(now - e.timestamp > e.ttl) /\ e.priority \in {"medium", "high"})
                     => e \in EntriesOf(queryCache')
          /\ \A e \in EntriesOf(embeddingCache) :
                 (~(now - e.timestamp > e.ttl) /\ e.priority \in {"medium", "high"})
                     => e \in EntriesOf(embeddingCache')]_vars

\* seven hours after the stores a sweep has deleted six expired answers of
\* low priority and kept the medium one, the high one and the embedding
C14_Witness ==
    /\ ret.op = "performCleanup"
    /\ ret.at = 7 * HourMs
    /\ stats.evictionCount = 6
    /\ Len(queryCache) = 2
    /\ \A e \in EntriesOf(queryCache) : e.priority \in {"medium", "high"} /\ e.timestamp = 0
    /\ Len(embeddingCache) = 1

(***************************************************************************)
(* Invalidation by tags                                                    *)
(***************************************************************************)
TagSet(tags) == {tags[i] : i \in DOMAIN tags}

\* the entries of a cache that share a tag with the given ones
SharingATag(m, tags) == {i \in DOMAIN m : TagSet(m[i].tags) \cap TagSet(tags) # {}}

WithoutSharing(m, tags) ==
    SelectSeq(m, LAMBDA e : TagSet(e.tags) \cap TagSet(tags) = {})

\* C15: invalidateByTags(tags) removes from both caches exactly the entries
\* whose tags share a tag with the given ones, leaves every other entry as it
\* was, and returns how many it removed: 0 for an empty tag list.
C15_InvalidateByTagsExact ==
    [][InvalidateByTags =>
          /\ queryCache' = WithoutSharing(queryCache, ret'.arg)
          /\ embeddingCache' = WithoutSharing(embeddingCache, ret'.arg)
          /\ ret'.value = Some(Cardinality(SharingATag(queryCache, ret'.arg))
                               + Cardinality(SharingATag(embeddingCache, ret'.arg)))
          /\ ret'.arg = << >> =>
                 /\ ret'.value = Some(0)
                 /\ queryCache' = queryCache
                 /\ embeddingCache' = embeddingCache]_vars

\* of two answers held, invalidateByTags(['quality:9', 'm1']) removed the one
\* tagged quality:9, returned 1 and left the one tagged quality:7
C15_Witness ==
    /\ ret.op = "invalidateByTags"
    /\ ret.arg = << <<"quality:", 9>>, <<"m1">> >>
    /\ ret.value = Some(1)
    /\ Len(queryCache) = 1
    /\ <<"quality:", 7>> \in TagSet(queryCache[1].tags)

(***************************************************************************)
(* Skipping a clustering run                                               *)
(***************************************************************************)
\* a call of performDocumentClustering that started a run rather than
\* returning at once
StartedARun == Len(clustering'.runs) = Len(clustering.runs) + 1

\* the forceReclustering argument of the call a step makes
ForceOfCall ==
    IF StartedARun THEN clustering'.runs[Len(clustering'.runs)].force
    ELSE clustering'.returned[1].force

\* the last run that completed set lastClusteringRun less than six hours ago
WithinSixHoursOfLastRun ==
    /\ clustering.lastClusteringRun # None
    /\ now - clustering.lastClusteringRun[1] < 6 * HourMs

\* C16: performDocumentClustering(false) called less than 6 hours after the
\* last run that completed loads no documents, calls no gateway and leaves the
\* cluster map, the document map and lastClusteringRun as they were;
\* performDocumentClustering(true) always starts a run; and a run that finds
\* fewer than 2 documents returns metrics whose seven fields are all 0.
C16_SkipWithinSixHoursUnlessForced ==
    [][/\ (PerformDocumentClustering /\ ~ForceOfCall /\ WithinSixHoursOfLastRun) =>
             /\ ~StartedARun
             /\ clustering'.returned[1].status = "skipped"
             /\ clustering'.returned[1].loads = 0
             /\ clustering'.returned[1].gatewayCalls = 0
             /\ clustering'.clusters = clustering.clusters
             /\ clustering'.documents = clustering.documents
             /\ clustering'.lastClusteringRun = clustering.lastClusteringRun
             /\ queryCache' = queryCache
       /\ (PerformDocumentClustering /\ ForceOfCall) =>
             /\ StartedARun
             /\ clustering'.runs[Len(clustering'.runs)].pc = "load"
       /\ (LoadDocumentsReturn /\ Len(clustering'.runs) < Len(clustering.runs)
              /\ clustering'.returned[1].status # "failed"
              /\ clustering'.returned[1].numDocuments < 2) =>
             clustering'.returned[1].metrics =
                 Some([totalClusters |-> 0, totalDocuments |-> 0, avgClusterSize |-> 0,
                       silhouetteScore |-> 0, intraClusterDistance |-> 0,
                       interClusterDistance |-> 0, topicCoverage |-> 0])]_vars

\* three hours after a run that clustered five documents, a call without
\* force has returned the metrics of the clusters held, without a load
C16_Witness ==
    /\ clustering.returned # None
    /\ clustering.returned[1].status = "skipped"
    /\ ~clustering.returned[1].force
    /\ clustering.returned[1].loads = 0
    /\ clustering.lastClusteringRun = Some(0)
    /\ now = 3 * HourMs
    /\ Len(clustering.documents) = 5
    /\ clustering.runs = << >>

(***************************************************************************)
(* findSimilarDocuments                                                    *)
(***************************************************************************)
\* the cluster of the document a call of findSimilarDocuments was about
ClusterOfTarget ==
    GetDocument(clustering.documents, clustering.found[1].documentId)[1].cluster_id

\* the results of the call that come from the target's own cluster
FromOwnCluster ==
    {i \in DOMAIN clustering.found[1].results :
        clustering.found[1].results[i].reason # "Cross-cluster similarity"}

\* C17: findSimilarDocuments returns at most `limit` results (none for a
\* limit below 1), in order of non-increasing similarity, without the target
\* and without a document twice; results from other clusters come only when
\* the target's cluster gave fewer than `limit`, and are never of the
\* target's cluster.
C17_SimilarCappedSortedDistinct ==
    clustering.found # None =>
        LET call == clustering.found[1]
            results == call.results
        IN  /\ Len(results) <= Max(call.limit, 0)
            /\ \A i, j \in DOMAIN results :
                   i < j => ~Greater(results[j].similarity, results[i].similarity)
            /\ \A i \in DOMAIN results : results[i].document.id # call.documentId
            /\ \A i, j \in DOMAIN results :
                   i # j => results[i].document.id # results[j].document.id
            /\ \A i \in DOMAIN results \ FromOwnCluster :
                   /\ results[i].document.cluster_id # ClusterOfTarget
                   /\ Cardinality(FromOwnCluster) < call.limit

(***************************************************************************)
(* What POST /chat writes to the cache                                     *)
(***************************************************************************)
\* request i ends in this step
ChatRequestEnds(i) == requests[i].pc = "store" /\ requests'[i].pc = "done"

\* C18: on the /chat path an answer is stored only if the generation stream
\* ran to its end; a request whose retrieval found no documents, or whose
\* stream broke after some text or before any, stores nothing and leaves the
\* caches as they were.
C18_OnlyCompleteAnswersStored ==
    [][/\ \A i \in DOMAIN requests :
            ChatRequestEnds(i) =>
                /\ requests'[i].stored =>
                       /\ requests[i].stream = "complete"
                       /\ requests[i].retrieved # << >>
                       /\ requests[i].fullResponse = <<"a1", "a3">>
                /\ (requests[i].retrieved = << >>
                       \/ requests[i].stream \in {"broken", "refused"}) =>
                       /\ ~requests'[i].stored
                       /\ queryCache' = queryCache
                       /\ embeddingCache' = embeddingCache
       /\ (ChatAnalyze \/ ChatRetrieve \/ ChatGenerate) =>
              /\ queryCache' = queryCache
              /\ embeddingCache' = embeddingCache]_vars

\* a request whose stream broke after its first fragment has ended with
\* nothing stored, and another whose stream ran to its end has stored its
\* answer: the cache holds that one entry
C18_Witness ==
    /\ \E i \in DOMAIN requests :
           /\ requests[i].pc = "done"
           /\ requests[i].stream = "broken"
           /\ requests[i].fullResponse = <<"a1">>
           /\ ~requests[i].stored
    /\ \E j \in DOMAIN requests :
           /\ requests[j].pc = "done"
           /\ requests[j].stream = "complete"
           /\ requests[j].stored
    /\ Len(queryCache) = 1
    /\ queryCache[1].data.response = <<"a1", "a3">>

\* C19: on a cache miss the request runs analyzer, retriever, generation,
\* quality evaluator and cache store in that order: generation starts only
\* after retrieval has returned, and an answer is stored only after the
\* ResponseQualityEvaluator has scored it.
C19_StoredOnlyAfterEvaluation ==
    \A i \in DOMAIN requests :
        /\ requests[i].retrieverCalls > 0 => requests[i].analyzerCalls > 0
        /\ requests[i].generationCalls > 0 =>
               /\ requests[i].retrieverCalls > 0
               /\ requests[i].retrieved # << >>
        /\ requests[i].stored =>
               /\ requests[i].generationCalls > 0
               /\ requests[i].evaluatorCalls > 0

(***************************************************************************)
(* Readers of the cluster and document maps                                *)
(***************************************************************************)
\* C20: a call that reads the maps while clustering runs sees the maps of one
\* run only: every read of one call of getDocumentRecommendations that found
\* the maps of some run found the maps of the same run.
C20_OneCallReadsOneRun ==
    clustering.recommended # None =>
        \A i, j \in DOMAIN clustering.recommended[1].seen :
            (clustering.recommended[1].seen[i] >= 1
                /\ clustering.recommended[1].seen[j] >= 1)
                => clustering.recommended[1].seen[i] = clustering.recommended[1].seen[j]

(***************************************************************************)
(* The refinement loop of K-means                                          *)
(***************************************************************************)
IsZeroVector(v) == \A j \in 1..Len(v) : v[j] = 0

\* a recomputed centroid is unchanged when it is within the tolerance of the
\* previous one; the centroid of a cluster without members is the vector of
\* zeros, unchanged when it was the vector of zeros before
CentroidUnchanged(old, new) ==
    IF IsZeroVector(old) /\ IsZeroVector(new) THEN TRUE
    ELSE ~FartherThanTolerance(calculateCosineSimilarity(old, new))

\* the first round, counted from 1, whose recomputed centroids are all
\* unchanged, and maxIterations if there is none before
RECURSIVE DocumentedRounds(_, _, _, _)
DocumentedRounds(documents, centroids, k, round) ==
    IF round > maxIterations THEN maxIterations
    ELSE CHOOSE rounds \in
             {IF \A i \in 1..k : CentroidUnchanged(centroids[i], newCentroids[i])
              THEN round
              ELSE DocumentedRounds(documents, newCentroids, k, round + 1) :
                 newCentroids \in
                     {updateCentroids(documents, Assignments(documents, centroids), k)}} :
             TRUE

\* the documented number of rounds for every load and every first centroid
DocumentedRoundsOfRuns ==
    {[embeddings |-> km.embeddings, firstIdx |-> km.firstIdx,
      rounds |-> DocumentedRounds(loadDocuments(km.embeddings),
                                  initializeCentroids(loadDocuments(km.embeddings), km.k,
                                                      km.firstIdx),
                                  km.k, 1)] : km \in KMeansRuns}

\* C21: the refinement loop of a run ends after at most 20 rounds, and it ends
\* in the first round whose recomputed centroids are all unchanged from the
\* round before, a cluster without members included.
C21_StopsAtFirstUnchangedRound ==
    Clustered =>
        /\ clustering.returned[1].rounds <= 20
        /\ \E d \in DocumentedRoundsOfRuns :
               /\ d.embeddings = clustering.returned[1].embeddings
               /\ d.firstIdx = clustering.returned[1].firstIdx
               /\ d.rounds = clustering.returned[1].rounds

\* an insertion into the analysis cache has just been made, by the call of
\* the classification model that returned in this step
AnalysisInserted ==
    /\ Len(analyzer'.calls) < Len(analyzer.calls)
    /\ analyzer'.returned[1].stored

\* the key of the insertion just made
InsertedKey == generateCacheKey(analyzer'.returned[1].request)

\* the entry of a cache whose key was inserted before every other key
InsertedEarliest(cache) ==
    cache[CHOOSE i \in 1..Len(cache) :
              \A j \in 1..Len(cache) : cache[i].inserted <= cache[j].inserted]

\* C22: the analysis cache never holds more than 1001 entries, and an
\* insertion made while it holds more than 1000 entries removes exactly the
\* entry whose key was inserted earliest before it writes its own entry:
\* apart from the inserted key, the cache after the insertion is the cache
\* before it without that one entry.
C22_InsertionEvictsEarliestInserted ==
    [][/\ Len(analyzer'.cache) <= 1001
       /\ (AnalysisInserted /\ Len(analyzer.cache) > 1000) =>
              \E key \in {InsertedKey}, earliest \in {InsertedEarliest(analyzer.cache).key} :
                  /\ \E i \in 1..Len(analyzer'.cache) : analyzer'.cache[i].key = key
                  /\ MapDelete(analyzer'.cache, key)
                         = MapDelete(MapDelete(analyzer.cache, earliest), key)]_vars

\* an insertion was made into a cache of 1001 entries: the entry inserted
\* first is gone, the one inserted second is now the first, and the
\* cache holds 1001 entries again
C22_Witness ==
    /\ analyzer.returned # None
    /\ analyzer.returned[1].stored
    /\ analyzer.insertions = 1002
    /\ Len(analyzer.cache) = 1001
    /\ analyzer.cache[1].inserted = 2
    /\ analyzer.cache[1001].inserted = 1002

\* C23: an analysis that analyzeQuery returns from its cache was computed for
\* the request it is returned to: the same question, the same session id and
\* the same number of previous questions.
C23_CachedAnalysisIsOfSameRequest ==
    (analyzer.returned # None /\ analyzer.returned[1].fromCache) =>
        analyzer.returned[1].analysis.computedFor = analyzer.returned[1].request

\* C24: whatever path evaluateResponse returns by, the handler of its errors
\* included, the shouldCache it returns is the caching policy applied to the
\* evaluation it returns: overall >= 0.75 or processingTime >= 5000.
C24_ShouldCacheIsPolicyOnEveryPath ==
    evaluation.result # None =>
        evaluation.result[1].shouldCache
            = (\/ evaluation.result[1].evaluation.qualityScore.overall >= 75
               \/ evaluation.result[1].evaluation.processingTime >= 5000)

\* C25: in batchSummarize every group after the first starts right after a
\* 2-second pause that followed the end of the group before it, whether
\* that group succeeded or failed.
C25_PauseBeforeEveryLaterGroup ==
    \A n \in 2..Len(summarize.log) :
        summarize.log[n][1] = "group" =>
            summarize.log[n - 1] = <<"pause", summarize.log[n][2] - batchSize>>

\* the requests of the batch whose own summarization succeeded
Summarized(sm) == {j \in 1..Len(sm.status) : sm.status[j] \in {"hit", "done"}}

\* C30: when batchSummarize has returned, its result holds, in request order,
\* the summary of every request whose own summarization succeeded.
C30_BatchKeepsEverySuccessfulSummary ==
    (summarize.pc = "responded" /\ summarize.route = "batch"
        /\ summarize.response[1].status = 200 /\ Unsettled(summarize) = {}) =>
        summarize.results = GroupResults(summarize, Summarized(summarize))

(***************************************************************************)
(* One clustering run at a time                                            *)
(***************************************************************************)
\* C26: a call of performDocumentClustering without force that is made while
\* a run is in progress starts no second recomputation.
C26_NoSecondRunWhileOneIsInProgress ==
    [][(PerformDocumentClustering /\ ~ForceOfCall /\ clustering.runs # << >>)
           => ~StartedARun]_vars

(***************************************************************************)
(* Whose entries POST /chat returns                                        *)
(***************************************************************************)
\* C27: an answer that POST /chat returns from the cache is the answer that
\* an earlier request of POST /chat stored for the same normalised question;
\* entries stored under 'topics:<id>' and the other internal keys are never
\* returned to a user question.
C27_ChatReturnsOnlyChatAnswers ==
    \A i \in 1..Len(requests) :
        requests[i].cacheHit =>
            \E j \in 1..(i - 1) :
                /\ requests[j].stored
                /\ QueryKey(requests[j].question) = QueryKey(requests[i].question)
                /\ requests[j].fullResponse = requests[i].fullResponse
                /\ requests[j].sources = requests[i].sources

(***************************************************************************)
(* The clusters of a run partition its documents                           *)
(***************************************************************************)
\* the ids of the documents that the run that returned last had loaded
LoadedIds == {DocumentId(i) : i \in 1..clustering.returned[1].numDocuments}

\* the ids of the members of a cluster
MemberIds(cluster) == {cluster.documents[m].id : m \in 1..Len(cluster.documents)}

\* C28: when a run has clustered its documents, every loaded document is a
\* member of exactly one cluster and carries that cluster's id, every
\* cluster has at least one member and a size equal to its member count,
\* and the document map holds exactly the members of the clusters.
C28_ClustersPartitionLoadedDocuments ==
    Clustered =>
        /\ \A id \in LoadedIds :
               Cardinality({c \in 1..Len(clustering.clusters) :
                               id \in MemberIds(clustering.clusters[c])}) = 1
        /\ \A c \in 1..Len(clustering.clusters) :
               LET cluster == clustering.clusters[c]
               IN  /\ cluster.size >= 1
                   /\ cluster.size = Len(cluster.documents)
                   /\ Cardinality(MemberIds(cluster)) = Len(cluster.documents)
                   /\ \A m \in 1..Len(cluster.documents) :
                          cluster.documents[m].cluster_id = cluster.id
        /\ {clustering.documents[d].id : d \in 1..Len(clustering.documents)}
               = UNION {MemberIds(clustering.clusters[c]) :
                           c \in 1..Len(clustering.clusters)}
        /\ {clustering.documents[d].id : d \in 1..Len(clustering.documents)} = LoadedIds
        /\ Len(clustering.documents) = clustering.returned[1].numDocuments

\* a run over five documents has ended with three clusters that hold the
\* five documents between them
C28_Witness ==
    /\ Clustered
    /\ clustering.returned[1].numDocuments = 5
    /\ Len(clustering.clusters) = 3
    /\ Len(clustering.documents) = 5
    /\ \E c \in 1..3 : clustering.clusters[c].size >= 2

(***************************************************************************)
(* The statistics and the contents of the caches                           *)
(***************************************************************************)
\* the lookups counted so far
CountedLookups(st) == st.totalHits + st.totalMisses

\* C29: the totalEntries that getStats returns is the number of entries held
\* by the query, embedding and document caches, and totalHits + totalMisses
\* counts the calls of getCachedQueryResponse since the last clear: a lookup
\* adds one, a clear resets it and no other call changes it.
C29_StatsMatchCacheContents ==
    [][/\ GetStats =>
              ret'.value[1].totalEntries
                  = Len(queryCache') + Len(embeddingCache') + Len(documentCache)
       /\ CountedLookups(stats') =
              IF GetCachedQueryResponse THEN CountedLookups(stats) + 1
              ELSE IF ClearCache THEN 0
              ELSE CountedLookups(stats)]_vars

====
